---- MODULE Spec2Model ----
(***************************************************************************)
(* PowerURL: the cache-aside link repository, the click-event pipeline and *)
(* the redirect-token codec, as state machines translated from the Go      *)
(* sources, with the request context and the rate-limit middleware of the  *)
(* HTTP layer.  Four groups of variables, and the specifications:          *)
(*   SpecLinks     - linkRepository (Create / GetByCode / Update)          *)
(*   SpecRace      - linkRepository under overlapping calls                *)
(*   SpecUpdateLink - linkService.UpdateLink under overlapping calls       *)
(*   SpecClicks    - Resolve / Go, publisher, consumer, timeout checker    *)
(*   SpecReplay    - Resolve / Go and the status update, over time         *)
(*   SpecIngest    - Resolve, publisher and consumer (SpecIngestFair: the  *)
(*                   consumer keeps running)                               *)
(*   SpecRespond   - Resolve and its publish goroutines, links of all kinds*)
(*   SpecSweep     - the timeout checker over a table of rows              *)
(*   SpecToken     - TokenSigner: issued tokens presented for validation   *)
(*   SpecTamper    - TokenSigner: issued tokens changed in one bit         *)
(*   SpecRoundTrip - TokenSigner: issue followed by validation             *)
(*   SpecExtract   - TokenSigner: validation of any signed payload         *)
(*   SpecList      - linkRepository.List over tables of rows               *)
(*   SpecService   - linkService.GetLink / UpdateLink and their errors     *)
(*   SpecShutdown  - the pipeline with Server.Shutdown (SpecShutdownFair:  *)
(*                   the checker's goroutine keeps running)                *)
(*   SpecRedeliver - the pipeline with messages delivered again            *)
(*   SpecConfirm   - Resolve / Go with the link updated in between         *)
(*   SpecContext   - Resolve and its publish goroutine with the request    *)
(*                   context                                               *)
(*   SpecRateLimit - the RateLimit middleware under overlapping requests   *)
(***************************************************************************)
EXTENDS Integers, Sequences, FiniteSets, TLC

(***************************************************************************)
(* Link repository: state.                                                 *)
(***************************************************************************)
VARIABLES
    db,             \* durable store, table links: code -> row (partial function)
    cache,          \* redis keys "link:"+code: code -> CacheMiss or a stored string
    bloom,          \* members of the redis bloom filter "bloom:links"
    bloomSupported, \* linkRepository.bloomSupported
    lastOp,         \* the last repository call and its result, or the last expiry
    inflight        \* repository calls between their store statement and their cache command

linkVars == <<db, cache, bloom, bloomSupported, lastOp, inflight>>

(***************************************************************************)
(* Token codec: the tokens issued so far and the last validation.          *)
(***************************************************************************)
VARIABLES
    issuedTokens,   \* what IssueWithClickID returned: code, click id, time, payload, text
    lastValidate,   \* the last ValidateAndExtractClickID call and its result
    lastRoundTrip   \* the last issue-then-validate pair of calls and its result

tokenVars == <<issuedTokens, lastValidate, lastRoundTrip>>

(***************************************************************************)
(* Click-event pipeline: the handlers' detached goroutines, the JetStream  *)
(* stream, the click_events table and the timeout checker.                 *)
(***************************************************************************)
VARIABLES
    now,            \* the clock, in ticks
    advances,       \* how often the clock has advanced
    checker,        \* ClickTimeoutChecker: the time of its ticker's next tick,
                    \* whether stopChan is closed, whether run has not returned
    goroutines,     \* detached tasks not yet run: publishes and status updates
    stream,         \* messages of stream CLICKS not yet acknowledged
    events,         \* table click_events: id -> row (partial function)
    pages,          \* intermediate pages rendered: code, click id, token
    nextUUID,       \* the number of uuid.New() calls so far, plus one
    lastGo,         \* the last answer of the confirmation endpoint
    hist            \* history: pages confirmed, ids updated, ids swept over,
                    \* ids whose publish failed, the consumer's last message,
                    \* the last answer of Resolve, the last answer of the
                    \* link service

clickVars ==
    <<now, advances, checker, goroutines, stream, events, pages, nextUUID,
      lastGo, hist>>

(***************************************************************************)
(* The HTTP layer: the request context fiber hands to the handlers, and    *)
(* the redis counters of the rate-limit middleware.                        *)
(***************************************************************************)
VARIABLES
    fiberCtx,       \* the *fiber.Ctx of the pool: the request it holds, or released
    started,        \* history: the request each publish goroutine was started by
    published,      \* history: the ip and user agent each Publish was called with
    rateKeys,       \* redis keys "ratelimit:"+ip: ip -> NoKey or counter and expiry
    rateReqs,       \* requests of RateLimit between their INCR and their EXPIRE
    rateLog         \* history: requests passed on under the current key, keys
                    \* created, the last answer, whether a request was rejected

httpVars == <<fiberCtx, started, published, rateKeys, rateReqs, rateLog>>

vars == <<linkVars, tokenVars, clickVars, httpVars>>

\* Short codes (strings are sequences of bytes: "a", "b") and the link
\* attributes the calls are made with.
Codes == {<<97>>, <<98>>}
URLs == {"u1", "u2"}
Modes == {"direct"}

\* A *time.Time: NoTime for nil, <<t>> for the time of tick t.
NoTime == <<>>

\* model.Link as a caller fills it in: created_at is the zero time until the
\* INSERT of Create sets it; updated_at is left out.
Links ==
    [code : Codes, url : URLs, mode : Modes, timer_seconds : {0},
     disabled : {FALSE}, expires_at : {NoTime}, created_at : {0}]

\* link_repository.go:26
cacheNullValue == <<"NULL">>

\* A redis GET that finds no key (redis.Nil).
CacheMiss == <<>>

\* json.Marshal(link): the object with one member per exported field.
Marshal(link) ==
    <<"{", link.code, link.url, link.mode, link.timer_seconds,
      link.disabled, link.expires_at, link.created_at, "}">>

\* json.Unmarshal succeeds on a string of the shape Marshal writes.
UnmarshalOk(s) == Len(s) = 9 /\ s[1] = "{" /\ s[9] = "}"

Unmarshal(s) ==
    [code |-> s[2], url |-> s[3], mode |-> s[4], timer_seconds |-> s[5],
     disabled |-> s[6], expires_at |-> s[7], created_at |-> s[8]]

\* Results of a repository call.
Ok(link) == [kind |-> "ok", link |-> link]
ErrLinkNotFound == [kind |-> "notfound"]
ErrStore == [kind |-> "error"]
OkNoValue == [kind |-> "ok"]

\* A filter probe that answers "absent" when BF.EXISTS fails.
bloomExists_FailClosed(code, redisErr, fp) ==
    IF ~bloomSupported THEN TRUE
    ELSE IF redisErr THEN FALSE
    ELSE code \in bloom \/ fp

\* bloomExists: true ("may exist") unless the filter answers 0.  redisErr is
\* a failing BF.EXISTS, fp a false positive of the probabilistic filter.
bloomExists(code, redisErr, fp) ==
    IF ~bloomSupported THEN TRUE
    ELSE IF redisErr THEN TRUE
    ELSE code \in bloom \/ fp

\* A BF.ADD that resets the filter to the one code.
bloomAdd_Replace(code, redisErr) ==
    IF ~bloomSupported \/ redisErr THEN bloom ELSE {code}

\* bloomAdd: BF.ADD, its error ignored.
bloomAdd(code, redisErr) ==
    IF ~bloomSupported \/ redisErr THEN bloom ELSE bloom \cup {code}

\* No call yet.
NoOp ==
    [op |-> "none", code |-> <<>>, res |-> OkNoValue, arg |-> <<>>,
     reads |-> 0, healthy |-> TRUE, absent |-> FALSE,
     cacheReads |-> 0, cacheWrites |-> 0]

InitLinkVars ==
    /\ db = <<>>
    /\ cache = [c \in Codes |-> CacheMiss]
    /\ bloom = {}
    /\ bloomSupported \in BOOLEAN
    /\ lastOp = NoOp
    /\ inflight = {}

\* The call, its result, the link it was given (kept when it succeeded), the
\* number of reads of the durable store it made, whether redis was reachable,
\* whether the filter answered "absent", and the numbers of GET and of
\* SET/DEL commands it sent for its cache key.
Trace(op, code, res, arg, reads, healthy, absent, cacheReads, cacheWrites) ==
    lastOp' = [op |-> op, code |-> code, res |-> res,
               arg |-> IF res.kind = "ok" THEN arg ELSE <<>>,
               reads |-> reads, healthy |-> healthy, absent |-> absent,
               cacheReads |-> cacheReads, cacheWrites |-> cacheWrites]

\* A call that sends no command for its cache key.
Record(op, code, res, arg, reads, healthy) ==
    Trace(op, code, res, arg, reads, healthy, FALSE, 0, 0)

\* An INSERT on a table without the key on code.
CreateStoreOk_NoUnique(link, dbErr) == ~dbErr

\* The unique-key INSERT of Create.
CreateStoreOk(link, dbErr) == ~dbErr /\ link.code \notin DOMAIN db

\* The struct after the INSERT: gorm has set CreatedAt to the time of the
\* call (model.Link, autoCreateTime).
Created(link) == [link EXCEPT !.created_at = now]

\* linkRepository.Create.  dbErr: the durable store fails; redisErr: redis
\* is unreachable during the call.
Create(link, dbErr, redisErr) ==
    IF CreateStoreOk(link, dbErr)
    THEN /\ db' = [c \in DOMAIN db \cup {link.code} |->
                      IF c = link.code THEN Created(link) ELSE db[c]]
         /\ bloom' = bloomAdd(link.code, redisErr)
         /\ Record("Create", link.code, OkNoValue, Created(link), 0, ~redisErr)
         /\ UNCHANGED <<cache, bloomSupported, inflight>>
    ELSE /\ Record("Create", link.code, ErrStore, link, 0, ~redisErr)
         /\ UNCHANGED <<db, cache, bloom, bloomSupported, inflight>>

\* The cache write after a store read that found the row (lines 124-129).
CachePositive(code, link, redisErr) ==
    IF redisErr THEN cache ELSE [cache EXCEPT ![code] = Marshal(link)]

\* The store read that found nothing leaving the cache as it is.
CacheNegative_Skip(code, redisErr) == cache

\* The cache write after a store read that found nothing (lines 116-118).
CacheNegative(code, redisErr) ==
    IF redisErr THEN cache ELSE [cache EXCEPT ![code] = cacheNullValue]

\* GetByCode from its cache probe on (lines 98-131); absent is what the
\* filter had answered.
Lookup(code, redisErr, dbErr, absent) ==
    LET cached == IF redisErr THEN CacheMiss ELSE cache[code]
        get(res, reads, writes) ==
            Trace("GetByCode", code, res, <<>>, reads, ~redisErr, absent, 1, writes)
    IN  IF cached # CacheMiss /\ cached = cacheNullValue
        THEN /\ get(ErrLinkNotFound, 0, 0)
             /\ UNCHANGED <<db, cache, bloom, bloomSupported, inflight>>
        ELSE IF cached # CacheMiss /\ UnmarshalOk(cached)
        THEN /\ get(Ok(Unmarshal(cached)), 0, 0)
             /\ UNCHANGED <<db, cache, bloom, bloomSupported, inflight>>
        ELSE IF dbErr
        THEN /\ get(ErrStore, 1, 0)
             /\ UNCHANGED <<db, cache, bloom, bloomSupported, inflight>>
        ELSE IF code \notin DOMAIN db
        THEN /\ cache' = CacheNegative(code, redisErr)
             /\ get(ErrLinkNotFound, 1, 1)
             /\ UNCHANGED <<db, bloom, bloomSupported, inflight>>
        ELSE /\ cache' = CachePositive(code, db[code], redisErr)
             /\ get(Ok(db[code]), 1, 1)
             /\ UNCHANGED <<db, bloom, bloomSupported, inflight>>

\* GetByCode with the filter's answer disregarded.
GetByCode_NoShortCircuit(code, redisErr, fp, dbErr) ==
    Lookup(code, redisErr, dbErr, ~bloomExists(code, redisErr, fp))

\* linkRepository.GetByCode
GetByCode(code, redisErr, fp, dbErr) ==
    IF ~bloomExists(code, redisErr, fp)
    THEN /\ Trace("GetByCode", code, ErrLinkNotFound, <<>>, 0, ~redisErr, TRUE, 0, 0)
         /\ UNCHANGED <<db, cache, bloom, bloomSupported, inflight>>
    ELSE Lookup(code, redisErr, dbErr, FALSE)

\* Update leaving the cache entry where it is.
CacheDel_Skip(code, redisErr) == cache

\* The cache invalidation of Update (lines 177-180).
CacheDel(code, redisErr) ==
    IF redisErr THEN cache ELSE [cache EXCEPT ![code] = CacheMiss]

\* The row after the UPDATE of the five columns (lines 158-164).
Updates(row, link) ==
    [row EXCEPT !.url = link.url, !.mode = link.mode,
                !.timer_seconds = link.timer_seconds,
                !.disabled = link.disabled, !.expires_at = link.expires_at]

\* An UPDATE that inserts the row when none has the code.
UpdateRows_Upsert(link) ==
    [c \in DOMAIN db \cup {link.code} |->
        IF c # link.code THEN db[c]
        ELSE IF c \in DOMAIN db THEN Updates(db[c], link) ELSE link]

\* UPDATE links SET ... WHERE code = ? (lines 155-164): the table afterwards.
UpdateRows(link) ==
    [c \in DOMAIN db |-> IF c = link.code THEN Updates(db[c], link) ELSE db[c]]

\* result.RowsAffected != 0 (line 169): a row has the code.
UpdateMatches(link) == link.code \in DOMAIN db

\* linkRepository.Update: the UPDATE, the re-read of the row (readErr: it
\* fails), the cache invalidation (redisErr: the DEL fails, ignored).
Update(link, dbErr, readErr, redisErr) ==
    IF dbErr
    THEN /\ Record("Update", link.code, ErrStore, link, 0, ~redisErr)
         /\ UNCHANGED <<db, cache, bloom, bloomSupported, inflight>>
    ELSE IF ~UpdateMatches(link)
    THEN /\ db' = UpdateRows(link)
         /\ Record("Update", link.code, ErrLinkNotFound, link, 0, ~redisErr)
         /\ UNCHANGED <<cache, bloom, bloomSupported, inflight>>
    ELSE IF readErr
    THEN /\ db' = UpdateRows(link)
         /\ Record("Update", link.code, ErrStore, link, 1, ~redisErr)
         /\ UNCHANGED <<cache, bloom, bloomSupported, inflight>>
    ELSE /\ db' = UpdateRows(link)
         /\ cache' = CacheDel(link.code, redisErr)
         /\ Trace("Update", link.code, OkNoValue, link, 1, ~redisErr, FALSE, 0, 1)
         /\ UNCHANGED <<bloom, bloomSupported, inflight>>

\* link_repository.go:136
defaultLimit == 20

\* A List that passes the limit on as it was given.
ListLimit_AsGiven(limit) == limit

\* The limit and the offset List queries with (lines 135-140).
ListLimit(limit) == IF limit <= 0 THEN defaultLimit ELSE limit

ListOffset(offset) == IF offset < 0 THEN 0 ELSE offset

\* ORDER BY created_at DESC over the rows with a code in S: the sequences of
\* these codes in which no row comes before a newer one.  Rows of one creation
\* time come in any order.
RECURSIVE NewestFirst(_)
NewestFirst(S) ==
    IF S = {} THEN {<<>>}
    ELSE UNION {{<<c>> \o rest : rest \in NewestFirst(S \ {c})} :
                  c \in {e \in S : \A d \in S :
                                      db[e].created_at >= db[d].created_at}}

\* LIMIT and OFFSET over the ordered rows (lines 145-146).
ListPage(order, limit, offset) ==
    LET first == ListOffset(offset) + 1
        last == IF Len(order) < ListOffset(offset) + ListLimit(limit)
                THEN Len(order) ELSE ListOffset(offset) + ListLimit(limit)
    IN  [i \in 1..(last - first + 1) |-> db[order[first + i - 1]]]

\* linkRepository.List: one query of the durable store, no redis command.
List(limit, offset, dbErr) ==
    /\ IF dbErr
       THEN Record("List", <<>>, ErrStore, <<>>, 1, TRUE)
       ELSE \E order \in NewestFirst(DOMAIN db) :
               Record("List", <<>>,
                      [kind |-> "ok", links |-> ListPage(order, limit, offset)],
                      [limit |-> limit, offset |-> offset], 1, TRUE)
    /\ UNCHANGED <<db, cache, bloom, bloomSupported, inflight>>

\* A cache key reaching its TTL (cacheTTL, cacheNullTTL): redis drops it.
CacheExpire(code) ==
    /\ cache[code] # CacheMiss
    /\ cache' = [cache EXCEPT ![code] = CacheMiss]
    /\ lastOp' = [NoOp EXCEPT !.op = "expire", !.code = code]
    /\ UNCHANGED <<db, bloom, bloomSupported, inflight>>

\* Calls that may be between their store statement and their cache command
\* at the same time.
MaxInflight == 2

\* A call under way: what its store statement saw, and the cache command
\* it has still to send.
Pending(op, code, value, res, arg) ==
    [op |-> op, code |-> code, value |-> value, res |-> res, arg |-> arg]

\* GetByCode up to its store read (lines 93-114), for a call that the filter
\* lets through and that misses the cache, with redis and the store
\* reachable.
GetRead(code, fp) ==
    /\ Cardinality(inflight) < MaxInflight
    /\ bloomExists(code, FALSE, fp)
    /\ cache[code] = CacheMiss
    /\ inflight' = inflight \cup
          {IF code \in DOMAIN db
           THEN Pending("GetByCode", code, Marshal(db[code]), Ok(db[code]), <<>>)
           ELSE Pending("GetByCode", code, cacheNullValue, ErrLinkNotFound, <<>>)}
    /\ UNCHANGED <<db, cache, bloom, bloomSupported, lastOp>>

\* The rest of that call: the SET of what it read (lines 115-131).
GetWrite(p) ==
    /\ p \in inflight
    /\ p.op = "GetByCode"
    /\ cache' = [cache EXCEPT ![p.code] = p.value]
    /\ Trace("GetByCode", p.code, p.res, <<>>, 1, TRUE, FALSE, 1, 1)
    /\ inflight' = inflight \ {p}
    /\ UNCHANGED <<db, bloom, bloomSupported>>

\* Update up to the re-read of its row (lines 154-175), for a row that is
\* there.
UpdateStore(link) ==
    /\ Cardinality(inflight) < MaxInflight
    /\ link.code \in DOMAIN db
    /\ db' = [db EXCEPT ![link.code] = Updates(@, link)]
    /\ inflight' = inflight \cup
          {Pending("Update", link.code, CacheMiss, OkNoValue, link)}
    /\ UNCHANGED <<cache, bloom, bloomSupported, lastOp>>

\* The rest of that call: the DEL (lines 177-182).
UpdateDel(p) ==
    /\ p \in inflight
    /\ p.op = "Update"
    /\ cache' = CacheDel(p.code, FALSE)
    /\ Trace("Update", p.code, p.res, p.arg, 1, TRUE, FALSE, 0, 1)
    /\ inflight' = inflight \ {p}
    /\ UNCHANGED <<db, bloom, bloomSupported>>

\* UpdateLinkInput: a pointer per field, NotSupplied for nil, <<v>> for a
\* value.
NotSupplied == <<>>

\* The inputs UpdateLink is called with: a new url, the disabled flag set,
\* both, or nothing.
UpdateLinkInputs ==
    [url : {NotSupplied, <<"u2">>}, mode : {NotSupplied},
     timer_seconds : {NotSupplied}, disabled : {NotSupplied, <<TRUE>>},
     expires_at : {NotSupplied}]

\* linkService.UpdateLink, lines 184-198: the supplied fields written over
\* the loaded link.
ApplyInput(link, input) ==
    [code |-> link.code,
     url |-> IF input.url # NotSupplied THEN input.url[1] ELSE link.url,
     mode |-> IF input.mode # NotSupplied THEN input.mode[1] ELSE link.mode,
     timer_seconds |-> IF input.timer_seconds # NotSupplied
                       THEN input.timer_seconds[1] ELSE link.timer_seconds,
     disabled |-> IF input.disabled # NotSupplied
                  THEN input.disabled[1] ELSE link.disabled,
     expires_at |-> IF input.expires_at # NotSupplied
                    THEN input.expires_at ELSE link.expires_at,
     created_at |-> link.created_at]

\* UpdateLink up to its load (lines 179-182): the GetByCode, with the filter
\* letting the code through and redis and the store reachable, of a link
\* that is found, in the cache or else in the store (and then cached).
UpdateLinkLoad(code, input) ==
    /\ Cardinality(inflight) < MaxInflight
    /\ bloomExists(code, FALSE, FALSE)
    /\ cache[code] # cacheNullValue
    /\ LET hit == cache[code] # CacheMiss /\ UnmarshalOk(cache[code])
       IN  /\ ~hit => code \in DOMAIN db
           /\ LET link == IF hit THEN Unmarshal(cache[code]) ELSE db[code]
              IN  /\ cache' = IF hit THEN cache ELSE CachePositive(code, link, FALSE)
                  /\ Trace("GetByCode", code, Ok(link), <<>>,
                           IF hit THEN 0 ELSE 1, TRUE, FALSE, 1, IF hit THEN 0 ELSE 1)
                  /\ inflight' = inflight \cup
                        {Pending("UpdateLink", code, CacheMiss, Ok(link), input)}
    /\ UNCHANGED <<db, bloom, bloomSupported>>

\* The rest of that call (lines 184-203): the fields applied and
\* linkRepository.Update of the five columns, its DEL failing or not.
UpdateLinkStore(p, redisErr) ==
    /\ p \in inflight
    /\ p.op = "UpdateLink"
    /\ LET link == ApplyInput(p.res.link, p.arg)
       IN  /\ db' = [db EXCEPT ![p.code] = Updates(@, link)]
           /\ cache' = CacheDel(p.code, redisErr)
           /\ Trace("Update", p.code, OkNoValue, link, 1, ~redisErr, FALSE, 0, 1)
    /\ inflight' = inflight \ {p}
    /\ UNCHANGED <<bloom, bloomSupported>>

(***************************************************************************)
(* Redirect-token codec: bytes are 0..255, strings are sequences of bytes. *)
(***************************************************************************)

\* encoding/base64 RawURLEncoding: the alphabet A-Z a-z 0-9 - _
EncodeChar(v) ==
    IF v < 26 THEN 65 + v
    ELSE IF v < 52 THEN 97 + (v - 26)
    ELSE IF v < 62 THEN 48 + (v - 52)
    ELSE IF v = 62 THEN 45 ELSE 95

\* The 6-bit value of a character, -1 for a character outside the alphabet.
DecodeChar(ch) ==
    IF ch >= 65 /\ ch <= 90 THEN ch - 65
    ELSE IF ch >= 97 /\ ch <= 122 THEN ch - 97 + 26
    ELSE IF ch >= 48 /\ ch <= 57 THEN ch - 48 + 52
    ELSE IF ch = 45 THEN 62
    ELSE IF ch = 95 THEN 63 ELSE -1

ByteAt(bytes, i) == IF i <= Len(bytes) THEN bytes[i] ELSE 0

\* base64.RawURLEncoding.EncodeToString: 3 bytes -> 4 characters, a last
\* group of 1 or 2 bytes -> 2 or 3 characters, no padding.
EncodeToString(bytes) ==
    LET n == Len(bytes)
        m == 4 * (n \div 3) + (IF n % 3 = 0 THEN 0 ELSE (n % 3) + 1)
    IN  SubSeq([k \in 1..m |->
            LET q == (k - 1) \div 4
                p == (k - 1) % 4
                val == ByteAt(bytes, 3 * q + 1) * 65536
                       + ByteAt(bytes, 3 * q + 2) * 256
                       + ByteAt(bytes, 3 * q + 3)
            IN  EncodeChar((val \div (64 ^ (3 - p))) % 64)], 1, m)

\* The decoder skips '\r' and '\n'.
IsNewline(ch) == ch = 10 \/ ch = 13
Significant(text) == SelectSeq(text, LAMBDA ch : ~IsNewline(ch))

\* base64.RawURLEncoding.DecodeString fails on a character outside the
\* alphabet and on a last group of one character.
DecodeOk(text) ==
    LET t == Significant(text)
    IN  /\ \A k \in 1..Len(t) : DecodeChar(t[k]) >= 0
        /\ Len(t) % 4 # 1

SextetAt(t, k) == IF k <= Len(t) THEN DecodeChar(t[k]) ELSE 0

\* The decoded bytes.  The decoder is not Strict(): the bits of the last
\* character that belong to no byte are not required to be zero.
DecodeString(text) ==
    LET t == Significant(text)
        m == Len(t)
        n == 3 * (m \div 4) + (IF m % 4 = 0 THEN 0 ELSE (m % 4) - 1)
    IN  SubSeq([i \in 1..n |->
            LET q == (i - 1) \div 3
                p == (i - 1) % 3
                val == SextetAt(t, 4 * q + 1) * 262144
                       + SextetAt(t, 4 * q + 2) * 4096
                       + SextetAt(t, 4 * q + 3) * 64
                       + SextetAt(t, 4 * q + 4)
            IN  (val \div (256 ^ (2 - p))) % 256], 1, n)

\* Ticks of the clock per second: time.Now() is finer than the whole seconds
\* of Unix().
TicksPerSecond == 2

\* time.Time.Unix(): whole seconds.
Unix(t) == t \div TicksPerSecond

\* redirect handler: const tokenTTL = 60 * time.Second
tokenTTL == 60

\* The process-held HMAC secret (RedirectDeps.Secret), configured.
secret == <<115, 107>>

\* binary.BigEndian.PutUint32(uint32(v)): the low 32 bits of v.
PutUint32(v) ==
    <<(v \div 16777216) % 256, (v \div 65536) % 256, (v \div 256) % 256, v % 256>>

\* binary.BigEndian.PutUint16(uint16(v)): the low 16 bits of v.
PutUint16(v) == <<(v \div 256) % 256, v % 256>>

\* binary.BigEndian.Uint16
Uint16(b) == b[1] * 256 + b[2]

\* The expiry test with the expiry second itself counted as expired.
UnixAfter_Inclusive(sec, b) ==
    IF b[1] >= 128 THEN FALSE
    ELSE sec >= b[1] * 16777216 + b[2] * 65536 + b[3] * 256 + b[4]

\* sec > int64(binary.BigEndian.Uint32(b)), for a clock below 2^31 seconds.
UnixAfter(sec, b) ==
    IF b[1] >= 128 THEN FALSE
    ELSE sec > b[1] * 16777216 + b[2] * 65536 + b[3] * 256 + b[4]

\* A keyed hash standing for HMAC-SHA256.  The bytes of key and message are
\* the coefficients of a polynomial; PolyHash gives <<its value at m,
\* m^(hi-lo+1)>> for msg[lo..hi], mod 257.
RECURSIVE PolyHash(_, _, _, _)
PolyHash(msg, lo, hi, m) ==
    IF lo = hi THEN <<(msg[lo] + 1) % 257, m>>
    ELSE LET mid == (lo + hi) \div 2
             l == PolyHash(msg, lo, mid, m)
             r == PolyHash(msg, mid + 1, hi, m)
         IN  <<(l[1] * r[2] + r[1]) % 257, (l[2] * r[2]) % 257>>

\* The 32 bytes of the digest, spread from the values at four points.
HmacSha256(key, msg) ==
    LET km == key \o msg
        v == <<PolyHash(km, 1, Len(km), 3)[1], PolyHash(km, 1, Len(km), 5)[1],
               PolyHash(km, 1, Len(km), 7)[1], PolyHash(km, 1, Len(km), 11)[1]>>
    IN  [j \in 1..32 |-> (v[((j - 1) % 4) + 1] + 8 * j) % 256]

\* mac[:16]
Head16(mac) == [j \in 1..16 |-> mac[j]]

\* A MAC input that leaves the code out.
MacInput_NoCode(code, payload) == <<124>> \o payload

\* The bytes the MAC is computed over: code, "|", payload.
MacInput(code, payload) == code \o <<124>> \o payload

\* TokenSigner.sign
sign(code, payload) == HmacSha256(secret, MacInput(code, payload))

\* The payload IssueWithClickID builds at time t with the 8 random bytes nonce.
IssuePayload(clickID, t, nonce) ==
    LET expires == Unix(t) + tokenTTL
        basePayload == PutUint32(expires) \o nonce
    IN  IF clickID # <<>>
        THEN PutUint16(Len(clickID)) \o clickID \o basePayload
        ELSE basePayload

\* The token text of a payload signed for code.
TokenText(code, payload) ==
    EncodeToString(payload) \o <<46>> \o EncodeToString(Head16(sign(code, payload)))

\* TokenSigner.IssueWithClickID
IssueWithClickID(code, clickID, t, nonce) ==
    IF Len(secret) = 0 THEN [err |-> "ErrMissingSecret", token |-> <<>>]
    ELSE [err |-> "nil", token |-> TokenText(code, IssuePayload(clickID, t, nonce))]

\* strings.SplitN(token, ".", 2): the place of the first ch, 0 if none.
IndexByte(text, ch) ==
    IF \A k \in 1..Len(text) : text[k] # ch THEN 0
    ELSE CHOOSE k \in 1..Len(text) :
            text[k] = ch /\ \A j \in 1..(k - 1) : text[j] # ch

Invalid == [err |-> "ErrInvalidToken", clickID |-> <<>>]

\* The parse of a verified payload with the expiry test left out.
ExtractClickID_NoExpiry(payload, t) ==
    IF Len(payload) < 4 THEN Invalid
    ELSE LET hasID == /\ Len(payload) > 14
                      /\ Uint16(payload) + 2 + 12 <= Len(payload)
         IN  [err |-> "nil",
              clickID |-> IF hasID THEN SubSeq(payload, 3, 2 + Uint16(payload))
                          ELSE <<>>]

\* The parse of a verified payload with an error of its own for an expired
\* token.
ExtractClickID_ExpiredDistinct(payload, t) ==
    IF Len(payload) < 4 THEN Invalid
    ELSE LET hasID == /\ Len(payload) > 14
                      /\ Uint16(payload) + 2 + 12 <= Len(payload)
             basePayload == IF hasID
                            THEN SubSeq(payload, 3 + Uint16(payload), Len(payload))
                            ELSE payload
         IN  IF UnixAfter(Unix(t), basePayload)
             THEN [err |-> "ErrExpiredToken", clickID |-> <<>>]
             ELSE [err |-> "nil",
                   clickID |-> IF hasID THEN SubSeq(payload, 3, 2 + Uint16(payload))
                               ELSE <<>>]

\* The call does not return: a run-time panic.
Panicked == [err |-> "panic", clickID |-> <<>>]

\* 2+clickIDLen in uint16, the type of clickIDLen (line 398).
IDEnd(clickIDLen) == (2 + clickIDLen) % 65536

\* b[lo:hi] is within b; it panics otherwise.
InBounds(b, lo, hi) == 0 <= lo /\ lo <= hi /\ hi <= Len(b)

\* The parse of a verified payload and the expiry test on its fixed block
\* (lines 390-414).
ExtractClickID(payload, t) ==
    IF Len(payload) < 4 THEN Invalid
    ELSE LET hasID == /\ Len(payload) > 14
                      /\ InBounds(payload, 0, 2)
                      /\ Uint16(payload) + 2 + 12 <= Len(payload)
             clickIDLen == Uint16(payload)
             idEnd == IDEnd(clickIDLen)
         IN  IF hasID /\ ~InBounds(payload, 2, idEnd) THEN Panicked
             ELSE LET clickID == IF hasID THEN SubSeq(payload, 3, idEnd) ELSE <<>>
                      basePayload == IF hasID
                                     THEN SubSeq(payload, idEnd + 1, Len(payload))
                                     ELSE payload
                  IN  IF ~InBounds(basePayload, 0, 4) THEN Panicked
                      ELSE IF UnixAfter(Unix(t), basePayload) THEN Invalid
                      ELSE [err |-> "nil", clickID |-> clickID]

\* The comparison of the provided MAC with the expected one (lines 385-388).
MacOk(code, payload, sigProvided) ==
    sigProvided = Head16(sign(code, payload))

\* A validation that reads the click id out of any token: no MAC comparison
\* and no expiry test.
ValidateAndExtractClickID_NoChecks(code, token, t) ==
    LET dot == IndexByte(token, 46)
    IN  IF dot = 0 \/ ~DecodeOk(SubSeq(token, 1, dot - 1)) THEN Invalid
        ELSE ExtractClickID_NoExpiry(DecodeString(SubSeq(token, 1, dot - 1)), t)

\* TokenSigner.ValidateAndExtractClickID at time t
ValidateAndExtractClickID(code, token, t) ==
    IF Len(secret) = 0 THEN [err |-> "ErrMissingSecret", clickID |-> <<>>]
    ELSE LET dot == IndexByte(token, 46)
             part1 == SubSeq(token, 1, dot - 1)
             part2 == SubSeq(token, dot + 1, Len(token))
             payload == DecodeString(part1)
             sigProvided == DecodeString(part2)
         IN  IF dot = 0 THEN Invalid
             ELSE IF ~DecodeOk(part1) THEN Invalid
             ELSE IF ~DecodeOk(part2) THEN Invalid
             ELSE IF Len(sigProvided) # 16 THEN Invalid
             ELSE IF ~MacOk(code, payload, sigProvided) THEN Invalid
             ELSE ExtractClickID(payload, t)

(***************************************************************************)
(* The codec driven with bounded inputs.  Time is an input of both calls   *)
(* (time.Now()), given in ticks.                                           *)
(***************************************************************************)

\* Longest code and longest click id the codec is called with.
MaxCodeLen == 2
MaxClickIDLen == 2
\* The latest tick a token is issued at (tokens are issued at tick 0 and at
\* this one).
MaxIssueTick == 1
\* Width, in ticks, of the windows after issuance and around the expiry
\* second in which validation is tried.
MaxLateTicks == 2

\* All sequences over S of length lo..hi.
SeqsOf(S, lo, hi) == UNION {[1..n -> S] : n \in lo..hi}

\* Codes made of "a" and the separator "|".
TokenCodes == SeqsOf({97, 124}, 1, MaxCodeLen)
TokenClickIDs == SeqsOf({120}, 0, MaxClickIDLen)
\* Outcomes of rand.Read for the 8 random bytes.
Nonces == {[i \in 1..8 |-> 7], [i \in 1..8 |-> 124]}

\* First tick after the expiry second of a token issued at tick t.
ExpiredTick(t) == (Unix(t) + tokenTTL + 1) * TicksPerSecond

\* Ticks at which a token issued at tick t is validated: the ticks right
\* after issuance and those on both sides of the end of the expiry second.
ValidateTicks(t) ==
    (t..(t + MaxLateTicks))
        \cup ((ExpiredTick(t) - MaxLateTicks)..(ExpiredTick(t) + MaxLateTicks - 1))

NoValidate ==
    [kind |-> "none", code |-> <<>>, at |-> 0, err |-> "nil", clickID |-> <<>>,
     payload |-> <<>>, origin |-> <<>>, change |-> <<>>]

\* A round trip: the code, the length of the click id given to the issue,
\* the ticks of the two calls, the error of the validation, the length of
\* the click id it returned and whether that is the click id given.
NoRoundTrip ==
    [done |-> FALSE, code |-> <<>>, idLen |-> 0, issuedAt |-> 0, at |-> 0,
     err |-> "nil", gotLen |-> 0, same |-> TRUE]

InitTokenVars ==
    /\ issuedTokens = {}
    /\ lastValidate = NoValidate
    /\ lastRoundTrip = NoRoundTrip

\* A call of IssueWithClickID(code, clickID) at tick t; a run follows one
\* token (the signer keeps no state from one call to the next).
TokIssue(code, clickID, t, nonce) ==
    /\ issuedTokens = {}
    /\ LET r == IssueWithClickID(code, clickID, t, nonce)
       IN  /\ r.err = "nil"
           /\ issuedTokens' = issuedTokens \cup
                  {[code |-> code, clickID |-> clickID, at |-> t,
                    payload |-> IssuePayload(clickID, t, nonce), token |-> r.token]}
    /\ lastValidate' = NoValidate
    /\ UNCHANGED lastRoundTrip

\* The decoded payload segment of a token text, <<>> if there is none.
PayloadOf(token) ==
    LET dot == IndexByte(token, 46)
    IN  IF dot = 0 \/ ~DecodeOk(SubSeq(token, 1, dot - 1)) THEN <<>>
        ELSE DecodeString(SubSeq(token, 1, dot - 1))

\* A call of ValidateAndExtractClickID(code, token) at tick t and what it
\* returned, with the issued token the presented text was made from.
Validated(kind, code, token, t, tok, change) ==
    LET r == ValidateAndExtractClickID(code, token, t)
    IN  /\ lastValidate.kind = "none"
        /\ lastValidate' =
            [kind |-> kind, code |-> code, at |-> t, err |-> r.err,
             clickID |-> r.clickID, payload |-> PayloadOf(token),
             origin |-> [code |-> tok.code, clickID |-> tok.clickID,
                         at |-> tok.at, payload |-> tok.payload],
             change |-> change]
        /\ UNCHANGED lastRoundTrip

\* An issued token presented unchanged, for the code it was issued for or
\* for another one.
TokValidate(tok, code, t) ==
    /\ tok \in issuedTokens
    /\ Validated(IF code = tok.code THEN "same" ELSE "other", code, tok.token, t, tok, <<>>)
    /\ UNCHANGED issuedTokens

\* x with bit b (0..7) flipped.
FlipBit(x, b) == IF (x \div (2 ^ b)) % 2 = 1 THEN x - 2 ^ b ELSE x + 2 ^ b

\* An issued token presented for its code with one bit of one character of
\* either segment flipped.
TokValidateFlipped(tok, pos, b, t) ==
    /\ tok \in issuedTokens
    /\ pos \in 1..Len(tok.token)
    /\ tok.token[pos] # 46
    /\ Validated("flipped", tok.code,
                 [tok.token EXCEPT ![pos] = FlipBit(@, b)], t, tok, <<pos, b>>)
    /\ UNCHANGED issuedTokens

\* Texts that are no token, made from an issued one: the "." taken out, a
\* character outside the alphabet ("!") in the payload segment, the last
\* character of the MAC segment cut off (a last group of one character), and
\* the last two cut off (15 bytes of MAC).
Malformed(token) ==
    {SelectSeq(token, LAMBDA ch : ch # 46),
     [token EXCEPT ![1] = 33],
     SubSeq(token, 1, Len(token) - 1),
     SubSeq(token, 1, Len(token) - 2)}

\* Such a text presented for the code of the issued token.
TokValidateMalformed(tok, text, t) ==
    /\ tok \in issuedTokens
    /\ text \in Malformed(tok.token)
    /\ Validated("malformed", tok.code, text, t, tok, <<>>)
    /\ UNCHANGED issuedTokens

\* The MAC segment of a token text.
SigSegment(token) == SubSeq(token, IndexByte(token, 46) + 1, Len(token))

\* A token put together by a party without the secret: a payload of its
\* choice with the MAC segment of an issued token, presented for any code.
TokValidateCrafted(tok, code, payload, t) ==
    /\ tok \in issuedTokens
    /\ <<code, payload>> # <<tok.code, tok.payload>>
    /\ Validated("crafted", code,
                 EncodeToString(payload) \o <<46>> \o SigSegment(tok.token),
                 t, tok, <<>>)
    /\ UNCHANGED issuedTokens

\* A payload of the caller's choice under a MAC made with the secret, for
\* code, presented for code.  Of the payload the record keeps the length
\* and the first 16 bytes.
TokValidateSigned(code, payload, t) ==
    /\ issuedTokens = {}
    /\ lastValidate.kind = "none"
    /\ LET r == ValidateAndExtractClickID(code, TokenText(code, payload), t)
           head == SubSeq(payload, 1, IF Len(payload) < 16 THEN Len(payload) ELSE 16)
       IN  lastValidate' =
              [kind |-> "signed", code |-> code, at |-> t, err |-> r.err,
               clickID |-> SubSeq(r.clickID, 1, IF Len(r.clickID) < 16
                                                THEN Len(r.clickID) ELSE 16),
               payload |-> head,
               origin |-> [code |-> code, clickID |-> <<>>, at |-> t,
                           payload |-> head],
               change |-> <<Len(payload), Len(r.clickID)>>]
    /\ UNCHANGED <<issuedTokens, lastRoundTrip>>

\* Longest payload without a click id that is tried byte by byte.
MaxShortPayload == 5

\* Any bytes up to that length: payloads below 4 bytes and below 12.
ShortPayloads == SeqsOf({0, 255}, 0, MaxShortPayload)

\* A length prefix n before k bytes.
Prefixed(n, k) == PutUint16(n) \o [i \in 1..k |-> 255]

\* Payloads of 14 to 16 bytes whose prefix fits the rest, or exceeds it.
PrefixedPayloads == {Prefixed(n, k) : n \in {0, 1, 2, 3, 65535}, k \in 12..14}

\* Payloads with a click id at the end of the range of the length field.
LongPayloads == {Prefixed(n, n + 12) : n \in {65533, 65534}}

\* Payloads a forger derives from an issued one by moving bytes of the code
\* across the separator into the payload.
Shifted(tok) ==
    {s \o <<124>> \o tok.payload : s \in SeqsOf({97, 124}, 0, MaxCodeLen - 1)}

\* IssueWithClickID(code, clickID) at tick t, and ValidateAndExtractClickID
\* of the token it returned, for the same code, at tick tv.
RoundTrip(code, clickID, t, nonce, tv) ==
    /\ ~lastRoundTrip.done
    /\ LET r == IssueWithClickID(code, clickID, t, nonce)
           v == ValidateAndExtractClickID(code, r.token, tv)
       IN  /\ r.err = "nil"
           /\ lastRoundTrip' =
                 [done |-> TRUE, code |-> code, idLen |-> Len(clickID),
                  issuedAt |-> t, at |-> tv, err |-> v.err,
                  gotLen |-> Len(v.clickID), same |-> v.clickID = clickID]
    /\ UNCHANGED <<issuedTokens, lastValidate>>

\* Click ids at the end of the range of the 2-byte length field.
LongClickIDs == {[i \in 1..n |-> 120] : n \in {65535, 65536}}

(***************************************************************************)
(* Click-event pipeline.                                                   *)
(***************************************************************************)

\* model.ClickStatusPending / ClickStatusSuccess / ClickStatusFailed
ClickStatusPending == "PENDING"
ClickStatusSuccess == "SUCCESS"
ClickStatusFailed == "FAILED"

\* Server.startBackgroundServices: NewClickTimeoutChecker(..., 60*time.Second)
clickTTL == 60
\* NewClickTimeoutChecker: interval: 30 * time.Second
checkInterval == 30

\* uuid.New() calls in one run, and the last tick at which a request is
\* resolved or a publish goroutine runs.
MaxUUIDs == 1
MaxStartTick == 0
\* Advances of the clock in one run: by one tick, or by one check interval.
MaxAdvances == 4

\* uuid.New().String() of the n-th call: 36 characters.
UUIDString(n) == [i \in 1..36 |-> IF i \in {9, 14, 19, 24} THEN 45 ELSE 48 + n]

\* json.Marshal(event) / json.Unmarshal(msg.Data, &event)
MarshalEvent(e) == <<"{", e.id, e.link_code, e.status, e.timestamp, "}">>
UnmarshalEventOk(d) == Len(d) = 6 /\ d[1] = "{" /\ d[6] = "}"
UnmarshalEvent(d) ==
    [id |-> d[2], link_code |-> d[3], status |-> d[4], timestamp |-> d[5]]

\* An answer of the confirmation endpoint: the HTTP status, whether the
\* clock had passed the token's expiry second, whether the same token had
\* been accepted for the same code before.
NoGo == [status |-> 0, late |-> FALSE, replay |-> FALSE]

\* What the consumer did with a message: whether it decoded, the id it
\* carried, whether that id had a row already, whether the store failed,
\* whether Create returned nil, and the reply sent ("ack" or "nak").
NoConsume ==
    [reply |-> "none", decoded |-> FALSE, id |-> <<>>, dup |-> FALSE,
     was |-> "", dbErr |-> FALSE, stored |-> FALSE]

\* An answer of Resolve: the code asked for, the HTTP status and the
\* Location header of a redirect.
NoResolve == [code |-> <<>>, status |-> 0, target |-> ""]

\* A nil error, and a nil *model.Link (<<link>> for a link).
NoError == [kind |-> "nil"]
NoLink == <<>>

\* fmt.Errorf(text + ": %v", err): the text of err, not err itself.
Errorf_Text(text, err) == [kind |-> "text", text |-> text]

\* fmt.Errorf(text + ": %w", err): an error that wraps err.
Errorf(text, err) == [kind |-> "wrapped", text |-> text, cause |-> err]

\* errors.Is(err, target): err or an error it wraps is target.
RECURSIVE ErrorsIs(_, _)
ErrorsIs(err, target) ==
    \/ err = target
    \/ err.kind = "wrapped" /\ ErrorsIs(err.cause, target)

\* An answer of the link service: the method, the link and the error.
Answer(op, link, err) == [op |-> op, link |-> link, err |-> err]
NoService == Answer("none", NoLink, NoError)

InitClickVars ==
    /\ now = 0
    /\ advances = 0
    /\ checker = [nextTick |-> checkInterval * TicksPerSecond,
                  stopped |-> FALSE, running |-> TRUE]
    /\ goroutines = {}
    /\ stream = {}
    /\ events = <<>>
    /\ pages = {}
    /\ nextUUID = 1
    /\ lastGo = NoGo
    /\ hist = [accepted |-> {}, updated |-> {}, swept |-> {}, lost |-> {},
               consume |-> NoConsume, resolve |-> NoResolve,
               service |-> NoService]

\* An INSERT that writes over the row of its id.
EventCreateOk_Upsert(e, dbErr) == ~dbErr

\* clickEventRepository.Create: INSERT, the id is the primary key.
EventCreateOk(e, dbErr) == ~dbErr /\ e.id \notin DOMAIN events

\* An INSERT that returns nil and leaves the table as it was.
EventCreate_Drop(e) == events

EventCreate(e) ==
    [i \in DOMAIN events \cup {e.id} |->
        IF i = e.id
        THEN [link_code |-> e.link_code, status |-> e.status, timestamp |-> e.timestamp]
        ELSE events[i]]

\* clickEventRepository.UpdateStatus: UPDATE ... SET status WHERE id = ?
UpdateStatus(id, status) ==
    [i \in DOMAIN events |->
        IF i = id THEN [events[i] EXCEPT !.status = status] ELSE events[i]]

\* The sweep's UPDATE with the comparison of the timestamp turned around.
UpdateExpiredPendingStatus_After(expiredBefore) ==
    [i \in DOMAIN events |->
        IF events[i].status = ClickStatusPending /\ events[i].timestamp > expiredBefore
        THEN [events[i] EXCEPT !.status = ClickStatusFailed]
        ELSE events[i]]

\* The sweep's UPDATE without the condition on the status.
UpdateExpiredPendingStatus_AnyStatus(expiredBefore) ==
    [i \in DOMAIN events |->
        IF events[i].timestamp < expiredBefore
        THEN [events[i] EXCEPT !.status = ClickStatusFailed]
        ELSE events[i]]

\* clickEventRepository.UpdateExpiredPendingStatus:
\* UPDATE ... SET status = FAILED WHERE status = PENDING AND timestamp < ?
UpdateExpiredPendingStatus(expiredBefore) ==
    [i \in DOMAIN events |->
        IF events[i].status = ClickStatusPending /\ events[i].timestamp < expiredBefore
        THEN [events[i] EXCEPT !.status = ClickStatusFailed]
        ELSE events[i]]

\* link.ExpiresAt != nil && time.Now().After(*link.ExpiresAt)
Expired(link) == link.expires_at # NoTime /\ now > link.expires_at[1]

\* loadLink answering a disabled or expired link as if it were not there.
LoadStatus_GoneAsNotFound(res) ==
    IF res.kind = "notfound" THEN 404
    ELSE IF res.kind = "error" THEN 500
    ELSE IF res.link.disabled \/ Expired(res.link) THEN 404
    ELSE 0

\* loadLink answering a failed lookup as if the link were not there.
LoadStatus_ErrorAsNotFound(res) ==
    IF res.kind \in {"notfound", "error"} THEN 404
    ELSE IF res.link.disabled \/ Expired(res.link) THEN 410
    ELSE 0

\* RedirectHandler.loadLink on the result of GetByCode: the HTTP status of
\* the failure, 0 when the link is served.
LoadStatus(res) ==
    IF res.kind = "notfound" THEN 404
    ELSE IF res.kind = "error" THEN 500
    ELSE IF res.link.disabled THEN 410
    ELSE IF Expired(res.link) THEN 410
    ELSE 0

Task(kind, code, status, clickID) ==
    [task |-> kind, code |-> code, status |-> status, clickID |-> clickID]

\* An answer of Resolve that turns into an internal error once a publish has
\* failed.
ResolveStatus_FailOnLost(res, tokErr) ==
    IF hist.lost # {} THEN 500
    ELSE IF LoadStatus(res) # 0 THEN LoadStatus(res)
    ELSE IF res.link.mode \in {"", "direct"} THEN 302
    ELSE IF res.link.mode \in {"click", "timer"} THEN 200
    ELSE 501

\* The HTTP status Resolve answers with (lines 85-112), from the result of
\* GetByCode and the error of IssueWithClickID.
ResolveStatus(res, tokErr) ==
    IF LoadStatus(res) # 0 THEN LoadStatus(res)
    ELSE IF res.link.mode \in {"", "direct"} THEN 302
    ELSE IF res.link.mode \in {"click", "timer"}
    THEN (IF tokErr # "nil" THEN 500 ELSE 200)
    ELSE 501

\* RedirectHandler.Resolve, GET /:code: the lookup, the goroutine started
\* for the publish and the page rendered.
ResolveRequest(code, dbErr, nonce) ==
    /\ now <= MaxStartTick
    /\ GetByCode(code, FALSE, FALSE, dbErr)
    /\ LET res == lastOp'.res
       IN  IF LoadStatus(res) # 0
           THEN UNCHANGED <<goroutines, pages, nextUUID>>
           ELSE IF res.link.mode \in {"", "direct"}
           THEN /\ goroutines' = goroutines \cup
                       {Task("publish", code, ClickStatusSuccess, <<>>)}
                /\ UNCHANGED <<pages, nextUUID>>
           ELSE IF res.link.mode \in {"click", "timer"}
           THEN /\ nextUUID <= MaxUUIDs
                /\ LET clickID == UUIDString(nextUUID)
                       tok == IssueWithClickID(res.link.code, clickID, now, nonce)
                   IN  /\ goroutines' = goroutines \cup
                              {Task("publish", code, ClickStatusPending, clickID)}
                       /\ pages' = IF tok.err = "nil"
                                   THEN pages \cup {[code |-> res.link.code,
                                                     clickID |-> clickID,
                                                     at |-> now,
                                                     token |-> tok.token]}
                                   ELSE pages
                       /\ nextUUID' = nextUUID + 1
           ELSE UNCHANGED <<goroutines, pages, nextUUID>>
    /\ UNCHANGED <<now, advances, checker, stream, events, lastGo>>
    /\ UNCHANGED tokenVars

\* Resolve with nothing kept of its answer.
Resolve(code, dbErr, nonce) ==
    /\ ResolveRequest(code, dbErr, nonce)
    /\ UNCHANGED hist

\* Resolve with its answer kept in hist.resolve.
ResolveLogged(code, dbErr, nonce) ==
    /\ ResolveRequest(code, dbErr, nonce)
    /\ LET res == lastOp'.res
           tokErr == IF Len(secret) = 0 THEN "ErrMissingSecret" ELSE "nil"
           status == ResolveStatus(res, tokErr)
       IN  hist' = [hist EXCEPT !.resolve =
                       [code |-> code, status |-> status,
                        target |-> IF status = 302 THEN res.link.url ELSE ""]]

\* PublishWithContext, lines 30-33: the id of the event is the click id,
\* or the n-th uuid when the click id is empty.
EventID_AlwaysNew(t, n) == UUIDString(n)

EventID(t, n) == IF t.clickID = <<>> THEN UUIDString(n) ELSE t.clickID

\* The goroutine publishClickEvent -> ClickPublisher.PublishWithContext.
\* natsErr: js.Publish fails; the error is logged and the event is lost.
PublishTask(t, natsErr) ==
    /\ t \in goroutines
    /\ t.task = "publish"
    /\ now <= MaxStartTick
    /\ t.clickID = <<>> => nextUUID <= MaxUUIDs
    /\ LET event == [id |-> EventID(t, nextUUID), link_code |-> t.code,
                     status |-> t.status, timestamp |-> now]
       IN  /\ stream' = IF natsErr THEN stream ELSE stream \cup {MarshalEvent(event)}
           /\ hist' = IF natsErr THEN [hist EXCEPT !.lost = @ \cup {event.id}]
                      ELSE hist
           /\ nextUUID' = IF t.clickID = <<>> THEN nextUUID + 1 ELSE nextUUID
    /\ goroutines' = goroutines \ {t}
    /\ UNCHANGED <<now, advances, checker, events, pages, lastGo>>
    /\ UNCHANGED <<linkVars, tokenVars>>

\* The consumer acknowledging whatever it fetched.
Reply_AckAlways(data, dbErr) == "ack"

\* ClickConsumer.consume, lines 75-98: Nak after a failed Unmarshal or a
\* failed Create, Ack otherwise.
Reply(data, dbErr) ==
    IF ~UnmarshalEventOk(data) THEN "nak"
    ELSE IF ~EventCreateOk(UnmarshalEvent(data), dbErr) THEN "nak"
    ELSE "ack"

\* One message of a fetched batch in ClickConsumer.consume.  A message that
\* was answered Nak is delivered again; ackErr: the Ack does not reach the
\* server, and the message is delivered again as well.
Consume(data, dbErr, ackErr) ==
    /\ data \in stream
    /\ LET stored == /\ UnmarshalEventOk(data)
                     /\ EventCreateOk(UnmarshalEvent(data), dbErr)
       IN  /\ events' = IF stored THEN EventCreate(UnmarshalEvent(data)) ELSE events
           /\ stream' = IF Reply(data, dbErr) = "ack" /\ ~ackErr
                        THEN stream \ {data} ELSE stream
    /\ UNCHANGED <<now, advances, checker, goroutines, pages, nextUUID, lastGo>>
    /\ UNCHANGED <<linkVars, tokenVars>>

\* The same with nothing kept of what the consumer did.
ConsumeMsg(data, dbErr, ackErr) ==
    /\ Consume(data, dbErr, ackErr)
    /\ UNCHANGED hist

\* The same with what the consumer did kept in hist.consume.
ConsumeLogged(data, dbErr, ackErr) ==
    /\ Consume(data, dbErr, ackErr)
    /\ LET decoded == UnmarshalEventOk(data)
       IN  hist' = [hist EXCEPT !.consume =
                       [reply |-> Reply(data, dbErr), decoded |-> decoded,
                        id |-> IF decoded THEN UnmarshalEvent(data).id ELSE <<>>,
                        dup |-> decoded /\ UnmarshalEvent(data).id \in DOMAIN events,
                        was |-> IF decoded /\ UnmarshalEvent(data).id \in DOMAIN events
                                THEN events[UnmarshalEvent(data).id].status
                                ELSE "",
                        dbErr |-> dbErr,
                        stored |-> decoded /\ EventCreateOk(UnmarshalEvent(data), dbErr)]]

\* Bytes on the subject clicks.events that are no ClickEvent.
ForeignMsgs == {<<"garbage">>}

\* Another client of the NATS server publishing on the subject.
ForeignPublish(data) ==
    /\ data \notin stream
    /\ stream' = stream \cup {data}
    /\ UNCHANGED <<now, advances, checker, goroutines, events, pages, nextUUID,
                   lastGo, hist>>
    /\ UNCHANGED <<linkVars, tokenVars>>

\* The consumer, with the store reachable, getting to a message whose event
\* has no row yet.
FetchAndStore ==
    \E data \in stream :
       /\ UnmarshalEventOk(data)
       /\ UnmarshalEvent(data).id \notin DOMAIN events
       /\ ConsumeLogged(data, FALSE, FALSE)
       /\ UNCHANGED httpVars

\* RedirectHandler.Go, lines 125-136: the HTTP status answered to a token
\* that did not validate, 0 for one that did.
TokenStatus(err) ==
    IF err = "nil" THEN 0
    ELSE IF err = "ErrInvalidToken" THEN 401
    ELSE 500

\* RedirectHandler.Go, GET /:code/_go/:token, with the token of a page.
Go(code, page, dbErr) ==
    /\ page \in pages
    /\ LET v == ValidateAndExtractClickID(code, page.token, now)
           replay == <<code, page.clickID>> \in hist.accepted
           answer(status) ==
               lastGo' = [status |-> status,
                          late |-> Unix(now) > Unix(page.at) + tokenTTL,
                          replay |-> replay]
       IN  IF v.err # "nil"
           THEN /\ answer(TokenStatus(v.err))
                /\ UNCHANGED <<linkVars, goroutines, hist>>
           ELSE /\ GetByCode(code, FALSE, FALSE, dbErr)
                /\ IF LoadStatus(lastOp'.res) # 0
                   THEN /\ answer(LoadStatus(lastOp'.res))
                        /\ UNCHANGED <<goroutines, hist>>
                   ELSE /\ answer(302)
                        /\ goroutines' =
                              IF v.clickID # <<>>
                              THEN goroutines \cup
                                     {Task("update", code, ClickStatusSuccess, v.clickID)}
                              ELSE goroutines
                        /\ hist' = [hist EXCEPT !.accepted = @ \cup {<<code, page.clickID>>}]
    /\ UNCHANGED <<now, advances, checker, stream, events, pages, nextUUID>>
    /\ UNCHANGED tokenVars

\* The goroutine of Go: clickEvents.UpdateStatus(ctx, clickID, SUCCESS).
UpdateTask(t, dbErr) ==
    /\ t \in goroutines
    /\ t.task = "update"
    /\ goroutines' = goroutines \ {t}
    /\ IF dbErr
       THEN UNCHANGED <<events, hist>>
       ELSE /\ events' = UpdateStatus(t.clickID, t.status)
            /\ hist' = [hist EXCEPT !.updated = @ \cup {t.clickID}]
    /\ UNCHANGED <<now, advances, checker, stream, pages, nextUUID, lastGo>>
    /\ UNCHANGED <<linkVars, tokenVars>>

\* Rows that are pending with more than the TTL gone since their timestamp.
Overdue ==
    {i \in DOMAIN events :
        /\ events[i].status = ClickStatusPending
        /\ now - events[i].timestamp > clickTTL * TicksPerSecond}

\* time.Ticker: ticks the receiver was too late for are dropped; the next
\* one comes at the next multiple of the interval.
NextTickAfter(t) ==
    ((t \div (checkInterval * TicksPerSecond)) + 1) * checkInterval * TicksPerSecond

\* A select in run that never finds stopChan ready.
SelectReady_TickOnly == IF now >= checker.nextTick THEN {"tick"} ELSE {}

\* The select of ClickTimeoutChecker.run (lines 299-305): the cases that are
\* ready, of which it takes any one.
SelectReady ==
    (IF now >= checker.nextTick THEN {"tick"} ELSE {})
       \cup (IF checker.stopped THEN {"stop"} ELSE {})

\* ClickTimeoutChecker.run: a tick of the ticker, checkExpiredPendingEvents.
SweepTick(dbErr) ==
    /\ checker.running
    /\ "tick" \in SelectReady
    /\ checker' = [checker EXCEPT !.nextTick = NextTickAfter(now)]
    /\ IF dbErr
       THEN UNCHANGED <<events, hist>>
       ELSE /\ events' = UpdateExpiredPendingStatus(now - clickTTL * TicksPerSecond)
            /\ hist' = [hist EXCEPT !.swept = @ \cup Overdue]
    /\ UNCHANGED <<now, advances, goroutines, stream, pages, nextUUID, lastGo>>
    /\ UNCHANGED <<linkVars, tokenVars>>

\* Time passes: one tick, or one check interval.
Advance(d) ==
    /\ advances < MaxAdvances
    /\ now' = now + d
    /\ advances' = advances + 1
    /\ UNCHANGED <<checker, goroutines, stream, events, pages, nextUUID, lastGo, hist>>
    /\ UNCHANGED <<linkVars, tokenVars>>

\* ClickTimeoutChecker.run taking the case of the closed stopChan: it
\* returns.
CheckerReturn ==
    /\ checker.running
    /\ "stop" \in SelectReady
    /\ checker' = [checker EXCEPT !.running = FALSE]
    /\ UNCHANGED <<now, advances, goroutines, stream, events, pages, nextUUID,
                   lastGo, hist>>
    /\ UNCHANGED <<linkVars, tokenVars, httpVars>>

\* Server.Shutdown, called once: ClickTimeoutChecker.Stop closes stopChan,
\* then the fiber app shuts down.  The server holds no reference to the
\* consumer, which has no stop channel.
Shutdown ==
    /\ ~checker.stopped
    /\ checker' = [checker EXCEPT !.stopped = TRUE]
    /\ UNCHANGED <<now, advances, goroutines, stream, events, pages, nextUUID,
                   lastGo, hist>>
    /\ UNCHANGED <<linkVars, tokenVars>>

\* A step of the repository, or of a service call that has not answered
\* yet, seen from the service's caller: no answer.
Unanswered ==
    /\ hist' = [hist EXCEPT !.service = NoService]
    /\ UNCHANGED <<now, advances, checker, goroutines, stream, events, pages,
                   nextUUID, lastGo>>
    /\ UNCHANGED tokenVars

\* linkService.GetLink.
GetLink(code, redisErr, fp, dbErr) ==
    /\ GetByCode(code, redisErr, fp, dbErr)
    /\ hist' = [hist EXCEPT !.service =
                   IF lastOp'.res.kind = "ok"
                   THEN Answer("GetLink", <<lastOp'.res.link>>, NoError)
                   ELSE Answer("GetLink", NoLink, Errorf("get link", lastOp'.res))]
    /\ UNCHANGED <<now, advances, checker, goroutines, stream, events, pages,
                   nextUUID, lastGo>>
    /\ UNCHANGED tokenVars

\* linkService.UpdateLink whose load fails (lines 179-182).
UpdateLinkFail(code, redisErr, fp, dbErr) ==
    /\ GetByCode(code, redisErr, fp, dbErr)
    /\ lastOp'.res.kind # "ok"
    /\ hist' = [hist EXCEPT !.service =
                   Answer("UpdateLink", NoLink, Errorf("load link", lastOp'.res))]
    /\ UNCHANGED <<now, advances, checker, goroutines, stream, events, pages,
                   nextUUID, lastGo>>
    /\ UNCHANGED tokenVars

\* linkService.UpdateLink whose load succeeded, answering after its Update.
UpdateLinkAnswer(p, redisErr) ==
    /\ UpdateLinkStore(p, redisErr)
    /\ hist' = [hist EXCEPT !.service =
                   Answer("UpdateLink", <<lastOp'.arg>>, NoError)]
    /\ UNCHANGED <<now, advances, checker, goroutines, stream, events, pages,
                   nextUUID, lastGo>>
    /\ UNCHANGED tokenVars

(***************************************************************************)
(* The HTTP layer.                                                         *)
(***************************************************************************)

\* What a handler reads from its context: c.IP() and c.Get("User-Agent").
Requests ==
    {[ip |-> "ip1", user_agent |-> "ua1"], [ip |-> "ip2", user_agent |-> "ua2"]}

\* No request yet; also a read that fails.
NoRequest == [ip |-> "", user_agent |-> ""]

\* rate_limit.go:22-23, the window in seconds.
MaxRequests == 100
Window == 60

\* The requests counted under one key beyond MaxRequests.
MaxOverLimit == 2

RateIPs == {"ip1"}

\* A key that does not exist, as a counter of 0; a counter without expiry
\* has ttl NoTime, one with an expiry the time <<t>> it is dropped at.
NoKey == [count |-> 0, ttl |-> NoTime]

Live(key) == key.count > 0 /\ (key.ttl = NoTime \/ now < key.ttl[1])

\* INCR: one atomic command; it creates the key, without expiry, when there
\* is none.
Incr(key) ==
    IF Live(key) THEN [key EXCEPT !.count = @ + 1]
    ELSE [count |-> 1, ttl |-> NoTime]

\* EXPIRE key Window.
Expire(key) ==
    IF Live(key) THEN [key EXCEPT !.ttl = <<now + Window * TicksPerSecond>>]
    ELSE key

\* A middleware that rejects nothing.
Limited_Never(result) == FALSE

\* rate_limit.go:53
Limited(result) == result > MaxRequests

NoRateLog ==
    [passed |-> 0, keys |-> 0, status |-> 0, result |-> 0,
     rejected |-> FALSE, healthy |-> TRUE]

InitHttpVars ==
    /\ fiberCtx = [req |-> NoRequest, held |-> FALSE]
    /\ started = {}
    /\ published = {}
    /\ rateKeys = [ip \in RateIPs |-> NoKey]
    /\ rateReqs = {}
    /\ rateLog = NoRateLog

\* fiber calls Resolve with the context c holding the request: the handler
\* up to its return, the publish goroutine started with c.
ResolveCtx(code, req, nonce) ==
    /\ ~fiberCtx.held
    /\ Resolve(code, FALSE, nonce)
    /\ fiberCtx' = [req |-> req, held |-> TRUE]
    /\ started' = started \cup
          {[id |-> t.clickID, own |-> req] : t \in goroutines' \ goroutines}
    /\ UNCHANGED <<published, rateKeys, rateReqs, rateLog>>

\* The handler returns: fiber releases c, and hands it to the next request.
HandlerReturn ==
    /\ fiberCtx.held
    /\ fiberCtx' = [fiberCtx EXCEPT !.held = FALSE]
    /\ UNCHANGED <<started, published, rateKeys, rateReqs, rateLog>>
    /\ UNCHANGED <<linkVars, tokenVars, clickVars>>

\* publishClickEvent in its goroutine (part_011:237-241): c.IP() and
\* c.Get("User-Agent") are read from whatever c holds by then.  The read of
\* a released context gives what was left in it, or fails and ends the
\* goroutine.
CtxRead ==
    IF fiberCtx.held THEN {fiberCtx.req} ELSE {fiberCtx.req, NoRequest}

PublishCtx(t) ==
    /\ t \in goroutines
    /\ t.task = "publish"
    /\ \E read \in CtxRead :
          IF read = NoRequest
          THEN /\ goroutines' = goroutines \ {t}
               /\ UNCHANGED <<now, advances, checker, stream, events, pages,
                              nextUUID, lastGo, hist>>
               /\ UNCHANGED <<linkVars, tokenVars, published>>
          ELSE /\ PublishTask(t, FALSE)
               /\ published' = published \cup
                     {[id |-> t.clickID, ip |-> read.ip,
                       user_agent |-> read.user_agent]}
    /\ UNCHANGED <<fiberCtx, started, rateKeys, rateReqs, rateLog>>

\* The answer of RateLimit to a request whose INCR returned result: 429, or
\* c.Next() (200 here); failed: a redis command of the request failed.
RateAnswer(result, failed) ==
    rateLog' = [rateLog EXCEPT
                  !.status = IF Limited(result) THEN 429 ELSE 200,
                  !.result = result,
                  !.passed = IF Limited(result) THEN @ ELSE @ + 1,
                  !.rejected = @ \/ Limited(result),
                  !.healthy = @ /\ ~failed]

\* RateLimit up to its INCR (lines 30-41), and to its end when the result
\* is not 1.  redisErr: the INCR fails, the request is passed on.
RateLimitIncr(ip, redisErr) ==
    /\ IF redisErr
       THEN /\ rateLog' = [rateLog EXCEPT !.status = 200, !.result = 0,
                                          !.healthy = FALSE]
            /\ UNCHANGED <<rateKeys, rateReqs>>
       ELSE LET key == Incr(rateKeys[ip])
            IN  /\ key.count <= MaxRequests + MaxOverLimit
                /\ rateKeys' = [rateKeys EXCEPT ![ip] = key]
                /\ IF key.count = 1
                   THEN /\ rateReqs' = rateReqs \cup {[ip |-> ip, result |-> 1]}
                        /\ rateLog' = [rateLog EXCEPT !.status = 0, !.result = 1,
                                                      !.passed = 0, !.keys = @ + 1]
                   ELSE /\ rateReqs' = rateReqs
                        /\ RateAnswer(key.count, FALSE)
    /\ UNCHANGED <<fiberCtx, started, published>>
    /\ UNCHANGED <<linkVars, tokenVars, clickVars>>

\* The rest of a request whose INCR returned 1 (lines 44-59): the EXPIRE,
\* its error dropped, and the answer.
RateLimitExpire(r, redisErr) ==
    /\ r \in rateReqs
    /\ rateKeys' = IF redisErr THEN rateKeys
                   ELSE [rateKeys EXCEPT ![r.ip] = Expire(@)]
    /\ rateReqs' = rateReqs \ {r}
    /\ RateAnswer(r.result, redisErr)
    /\ UNCHANGED <<fiberCtx, started, published>>
    /\ UNCHANGED <<linkVars, tokenVars, clickVars>>

(***************************************************************************)
(* Specifications.                                                         *)
(***************************************************************************)

\* The link repository under sequences of calls.
InitLinks == InitLinkVars /\ InitTokenVars /\ InitClickVars /\ InitHttpVars

NextLinks ==
    \/ \E link \in Links, dbErr, redisErr \in BOOLEAN :
          Create(link, dbErr, redisErr) /\ UNCHANGED <<tokenVars, clickVars, httpVars>>
    \/ \E code \in Codes, redisErr, fp, dbErr \in BOOLEAN :
          GetByCode(code, redisErr, fp, dbErr) /\ UNCHANGED <<tokenVars, clickVars, httpVars>>
    \/ \E link \in Links, dbErr, readErr, redisErr \in BOOLEAN :
          Update(link, dbErr, readErr, redisErr) /\ UNCHANGED <<tokenVars, clickVars, httpVars>>
    \/ \E code \in Codes : CacheExpire(code) /\ UNCHANGED <<tokenVars, clickVars, httpVars>>
    \/ \E limit \in {0, 1}, offset \in {-1, 1}, dbErr \in BOOLEAN :
          List(limit, offset, dbErr) /\ UNCHANGED <<tokenVars, clickVars, httpVars>>

SpecLinks == InitLinks /\ [][NextLinks]_vars

\* The link repository under calls that overlap: GetByCode and Update in
\* two steps each, around Create.
InitRace == InitLinks

NextRace ==
    \/ \E link \in Links :
          Create(link, FALSE, FALSE) /\ UNCHANGED <<tokenVars, clickVars, httpVars>>
    \/ \E code \in Codes, fp \in BOOLEAN :
          GetRead(code, fp) /\ UNCHANGED <<tokenVars, clickVars, httpVars>>
    \/ \E p \in inflight : GetWrite(p) /\ UNCHANGED <<tokenVars, clickVars, httpVars>>
    \/ \E link \in Links : UpdateStore(link) /\ UNCHANGED <<tokenVars, clickVars, httpVars>>
    \/ \E p \in inflight : UpdateDel(p) /\ UNCHANGED <<tokenVars, clickVars, httpVars>>

SpecRace == InitRace /\ [][NextRace]_vars

\* linkService.UpdateLink under calls that overlap, after Create.
InitUpdateLink == InitLinks

NextUpdateLink ==
    \/ \E link \in Links :
          Create(link, FALSE, FALSE) /\ UNCHANGED <<tokenVars, clickVars, httpVars>>
    \/ \E code \in Codes, input \in UpdateLinkInputs :
          UpdateLinkLoad(code, input) /\ UNCHANGED <<tokenVars, clickVars, httpVars>>
    \/ \E p \in inflight, redisErr \in BOOLEAN :
          UpdateLinkStore(p, redisErr) /\ UNCHANGED <<tokenVars, clickVars, httpVars>>

SpecUpdateLink == InitUpdateLink /\ [][NextUpdateLink]_vars

\* linkRepository.List alone, over a table of up to MaxListRows rows created
\* at different times, in the order of their codes or in another one.
MaxListRows == 22

ListTable(n, m) ==
    [c \in {<<k>> : k \in 1..n} |->
        [code |-> c, url |-> "u1", mode |-> "direct", timer_seconds |-> 0,
         disabled |-> FALSE, expires_at |-> NoTime,
         created_at |-> (c[1] * m) % 29]]

InitList ==
    /\ \E n \in {0, 1, 2, MaxListRows - 1, MaxListRows}, m \in {1, 5} :
          /\ db = ListTable(n, m)
          /\ bloom = DOMAIN db
    /\ cache = [c \in Codes |-> CacheMiss]
    /\ bloomSupported = TRUE
    /\ lastOp = NoOp
    /\ inflight = {}
    /\ InitTokenVars
    /\ InitClickVars
    /\ InitHttpVars

NextList ==
    \E limit \in {-1, 0, 1, 2, 20, 21, 25}, offset \in {-1, 0, 1, 2, 21},
       dbErr \in BOOLEAN :
       List(limit, offset, dbErr) /\ UNCHANGED <<tokenVars, clickVars, httpVars>>

SpecList == InitList /\ [][NextList]_vars

\* The link service over the repository: links are created, looked up and
\* updated by code, found or not, with redis and the store failing or not.
InitService == InitLinks

NextService ==
    \/ \E link \in {l \in Links : l.url = "u1"} :
          Create(link, FALSE, FALSE) /\ Unanswered /\ UNCHANGED httpVars
    \/ \E code \in Codes, redisErr, fp, dbErr \in BOOLEAN :
          GetLink(code, redisErr, fp, dbErr) /\ UNCHANGED httpVars
    \/ \E code \in Codes, redisErr, fp, dbErr \in BOOLEAN :
          UpdateLinkFail(code, redisErr, fp, dbErr) /\ UNCHANGED httpVars
    \/ \E code \in Codes,
          input \in {i \in UpdateLinkInputs :
                       i.url # NotSupplied /\ i.disabled = NotSupplied} :
          UpdateLinkLoad(code, input) /\ Unanswered /\ UNCHANGED httpVars
    \/ \E p \in inflight, redisErr \in BOOLEAN : UpdateLinkAnswer(p, redisErr)
             /\ UNCHANGED httpVars

SpecService == InitService /\ [][NextService]_vars

\* The codec under bounded inputs.
InitToken == InitLinkVars /\ bloomSupported /\ InitTokenVars /\ InitClickVars /\ InitHttpVars

NextToken ==
    \/ \E code \in TokenCodes, clickID \in TokenClickIDs,
          t \in {0, MaxIssueTick}, nonce \in Nonces :
          TokIssue(code, clickID, t, nonce) /\ UNCHANGED <<linkVars, clickVars, httpVars>>
    \/ \E tok \in issuedTokens, code \in TokenCodes :
          \E t \in (IF code = tok.code THEN ValidateTicks(tok.at) ELSE {tok.at}) :
             TokValidate(tok, code, t) /\ UNCHANGED <<linkVars, clickVars, httpVars>>
    \/ \E tok \in issuedTokens, code \in TokenCodes :
          \E payload \in Shifted(tok) :
             TokValidateCrafted(tok, code, payload, tok.at)
                /\ UNCHANGED <<linkVars, clickVars, httpVars>>
    \/ \E tok \in issuedTokens :
          \E text \in Malformed(tok.token) :
             TokValidateMalformed(tok, text, tok.at)
                /\ UNCHANGED <<linkVars, clickVars, httpVars>>

SpecToken == InitToken /\ [][NextToken]_vars

\* ValidateAndExtractClickID under payloads of any shape whose MAC verifies.
InitExtract == InitToken

NextExtract ==
    \/ \E payload \in ShortPayloads \cup PrefixedPayloads, t \in {0, TicksPerSecond} :
          TokValidateSigned(<<97>>, payload, t)
             /\ UNCHANGED <<linkVars, clickVars, httpVars>>
    \/ \E payload \in LongPayloads :
          TokValidateSigned(<<97>>, payload, 0)
             /\ UNCHANGED <<linkVars, clickVars, httpVars>>

SpecExtract == InitExtract /\ [][NextExtract]_vars

\* The codec under tokens changed in one bit.
InitTamper == InitToken

NextTamper ==
    \/ \E code \in TokenCodes, clickID \in TokenClickIDs, nonce \in Nonces :
          TokIssue(code, clickID, 0, nonce) /\ UNCHANGED <<linkVars, clickVars, httpVars>>
    \/ \E tok \in issuedTokens, b \in 0..7 :
          \E pos \in 1..Len(tok.token) :
             TokValidateFlipped(tok, pos, b, tok.at) /\ UNCHANGED <<linkVars, clickVars, httpVars>>

SpecTamper == InitTamper /\ [][NextTamper]_vars

\* The pipeline: the link "a", in click mode, exists and is asked for.
ClickLink == [code |-> <<97>>, url |-> "u1", mode |-> "click", timer_seconds |-> 0,
              disabled |-> FALSE, expires_at |-> NoTime, created_at |-> 0]

InitClicks ==
    /\ db = [c \in {ClickLink.code} |-> ClickLink]
    /\ cache = [c \in Codes |-> CacheMiss]
    /\ bloom = {ClickLink.code}
    /\ bloomSupported = TRUE
    /\ lastOp = NoOp
    /\ inflight = {}
    /\ InitTokenVars
    /\ InitClickVars
    /\ InitHttpVars

NextClicks ==
    \/ \E dbErr \in BOOLEAN, nonce \in {[i \in 1..8 |-> 7]} :
          Resolve(ClickLink.code, dbErr, nonce) /\ UNCHANGED httpVars
    \/ \E t \in goroutines, natsErr \in BOOLEAN : PublishTask(t, natsErr)
             /\ UNCHANGED httpVars
    \/ \E data \in stream, dbErr, ackErr \in BOOLEAN : ConsumeMsg(data, dbErr, ackErr)
             /\ UNCHANGED httpVars
    \/ \E code \in Codes, page \in pages : Go(code, page, FALSE)
             /\ UNCHANGED httpVars
    \/ \E t \in goroutines, dbErr \in BOOLEAN : UpdateTask(t, dbErr)
             /\ UNCHANGED httpVars
    \/ \E dbErr \in BOOLEAN : SweepTick(dbErr) /\ UNCHANGED httpVars
    \/ \E d \in {1, checkInterval * TicksPerSecond} : Advance(d)
             /\ UNCHANGED httpVars

SpecClicks == InitClicks /\ [][NextClicks]_vars

\* The pipeline with what the consumer did kept: messages are delivered
\* again after a lost Ack or a Nak while the confirmation and the timeout
\* checker change the status of their events.
InitRedeliver == InitClicks

NextRedeliver ==
    \/ \E nonce \in {[i \in 1..8 |-> 7]} : Resolve(ClickLink.code, FALSE, nonce)
             /\ UNCHANGED httpVars
    \/ \E t \in goroutines : PublishTask(t, FALSE) /\ UNCHANGED httpVars
    \/ \E data \in stream, dbErr, ackErr \in BOOLEAN : ConsumeLogged(data, dbErr, ackErr)
             /\ UNCHANGED httpVars
    \/ \E code \in Codes, page \in pages : Go(code, page, FALSE)
             /\ UNCHANGED httpVars
    \/ \E t \in goroutines : UpdateTask(t, FALSE) /\ UNCHANGED httpVars
    \/ SweepTick(FALSE) /\ UNCHANGED httpVars
    \/ \E d \in {1, checkInterval * TicksPerSecond} : Advance(d)
             /\ UNCHANGED httpVars

SpecRedeliver == InitRedeliver /\ [][NextRedeliver]_vars

\* The two endpoints while the link is changed: it is disabled, or given an
\* expiry at the time of the start, through linkRepository.Update, whose
\* re-read and whose DEL fail or not.
ConfirmUpdates ==
    {[ClickLink EXCEPT !.disabled = TRUE],
     [ClickLink EXCEPT !.expires_at = <<0>>]}

InitConfirm == InitClicks

NextConfirm ==
    \/ \E nonce \in {[i \in 1..8 |-> 7]} : Resolve(ClickLink.code, FALSE, nonce)
             /\ UNCHANGED httpVars
    \/ \E code \in Codes, page \in pages : Go(code, page, FALSE)
             /\ UNCHANGED httpVars
    \/ \E t \in goroutines : UpdateTask(t, FALSE) /\ UNCHANGED httpVars
    \/ \E link \in ConfirmUpdates, readErr, redisErr \in BOOLEAN :
          Update(link, FALSE, readErr, redisErr) /\ UNCHANGED <<tokenVars, clickVars, httpVars>>
    \/ \E d \in {1, checkInterval * TicksPerSecond} : Advance(d)
             /\ UNCHANGED httpVars

SpecConfirm == InitConfirm /\ [][NextConfirm]_vars

\* The two endpoints of a click link alone: pages are handed out and their
\* tokens presented over time; the published events are never consumed.
InitReplay == InitClicks

NextReplay ==
    \/ \E dbErr \in BOOLEAN, nonce \in {[i \in 1..8 |-> 7]} :
          Resolve(ClickLink.code, dbErr, nonce) /\ UNCHANGED httpVars
    \/ \E code \in Codes, page \in pages : Go(code, page, FALSE)
             /\ UNCHANGED httpVars
    \/ \E t \in goroutines, dbErr \in BOOLEAN : UpdateTask(t, dbErr)
             /\ UNCHANGED httpVars
    \/ \E d \in {1, checkInterval * TicksPerSecond} : Advance(d)
             /\ UNCHANGED httpVars

SpecReplay == InitReplay /\ [][NextReplay]_vars

\* Resolve, the publisher and the consumer: a click link and a direct link,
\* no confirmation and no clock.
DirectLink == [code |-> <<98>>, url |-> "u2", mode |-> "direct", timer_seconds |-> 0,
               disabled |-> FALSE, expires_at |-> NoTime, created_at |-> 0]

InitIngest ==
    /\ db = [c \in {ClickLink.code, DirectLink.code} |->
                IF c = ClickLink.code THEN ClickLink ELSE DirectLink]
    /\ cache = [c \in Codes |-> CacheMiss]
    /\ bloom = {ClickLink.code, DirectLink.code}
    /\ bloomSupported = TRUE
    /\ lastOp = NoOp
    /\ inflight = {}
    /\ InitTokenVars
    /\ InitClickVars
    /\ InitHttpVars

NextIngest ==
    \/ \E code \in Codes, dbErr \in BOOLEAN, nonce \in {[i \in 1..8 |-> 7]} :
          Resolve(code, dbErr, nonce) /\ UNCHANGED httpVars
    \/ \E t \in goroutines, natsErr \in BOOLEAN : PublishTask(t, natsErr)
             /\ UNCHANGED httpVars
    \/ \E data \in stream, dbErr, ackErr \in BOOLEAN : ConsumeLogged(data, dbErr, ackErr)
             /\ UNCHANGED httpVars
    \/ \E data \in ForeignMsgs : ForeignPublish(data) /\ UNCHANGED httpVars

SpecIngest == InitIngest /\ [][NextIngest]_vars

\* The same with the consumer loop running for ever, every unacknowledged
\* message delivered again and the store reachable again and again.
SpecIngestFair == SpecIngest /\ WF_vars(FetchAndStore)

\* Resolve and its publish goroutines alone: one link under the code "a", of
\* any mode, enabled or disabled, with or without an expiry at or before the
\* time of the requests; no link under "b".
RespondLinks ==
    [code : {<<97>>}, url : {"u1"}, mode : {"direct", "click", "timer", "batch"},
     timer_seconds : {0}, disabled : BOOLEAN, expires_at : {NoTime, <<-1>>, <<0>>},
     created_at : {0}]

InitRespond ==
    /\ \E l \in RespondLinks : db = [c \in {l.code} |-> l]
    /\ cache = [c \in Codes |-> CacheMiss]
    /\ bloom = {<<97>>}
    /\ bloomSupported = TRUE
    /\ lastOp = NoOp
    /\ inflight = {}
    /\ InitTokenVars
    /\ InitClickVars
    /\ InitHttpVars

NextRespond ==
    \/ \E code \in Codes, dbErr \in BOOLEAN, nonce \in {[i \in 1..8 |-> 7]} :
          ResolveLogged(code, dbErr, nonce) /\ UNCHANGED httpVars
    \/ \E t \in goroutines, natsErr \in BOOLEAN : PublishTask(t, natsErr)
             /\ UNCHANGED httpVars

SpecRespond == InitRespond /\ [][NextRespond]_vars

\* The timeout checker alone, over a table that holds rows already: each of
\* any status, written one tick before the start or at the start.
MaxSweepRows == 2

SweepRows ==
    [link_code : {<<97>>},
     status : {ClickStatusPending, ClickStatusSuccess, ClickStatusFailed},
     timestamp : {-1, 0}]

InitSweep ==
    /\ InitLinkVars
    /\ bloomSupported
    /\ InitTokenVars
    /\ now = 0
    /\ advances = 0
    /\ checker = [nextTick |-> checkInterval * TicksPerSecond,
                  stopped |-> FALSE, running |-> TRUE]
    /\ goroutines = {}
    /\ stream = {}
    /\ events \in [{UUIDString(n) : n \in 1..MaxSweepRows} -> SweepRows]
    /\ pages = {}
    /\ nextUUID = 1
    /\ lastGo = NoGo
    /\ hist = [accepted |-> {}, updated |-> {}, swept |-> {}, lost |-> {},
               consume |-> NoConsume, resolve |-> NoResolve,
               service |-> NoService]
    /\ InitHttpVars

NextSweep ==
    \/ \E dbErr \in BOOLEAN : SweepTick(dbErr) /\ UNCHANGED httpVars
    \/ \E d \in {1, checkInterval * TicksPerSecond} : Advance(d)
             /\ UNCHANGED httpVars

SpecSweep == InitSweep /\ [][NextSweep]_vars

\* The background loops around a shutdown: requests are served until
\* Server.Shutdown is called; the publish goroutines left over, the consumer
\* and the timeout checker go on as their code lets them.
InitShutdown == InitClicks

NextShutdown ==
    \/ \E nonce \in {[i \in 1..8 |-> 7]} :
          ~checker.stopped /\ Resolve(ClickLink.code, FALSE, nonce)
             /\ UNCHANGED httpVars
    \/ \E t \in goroutines : PublishTask(t, FALSE) /\ UNCHANGED httpVars
    \/ \E data \in stream, ackErr \in BOOLEAN : ConsumeLogged(data, FALSE, ackErr)
             /\ UNCHANGED httpVars
    \/ SweepTick(FALSE) /\ UNCHANGED httpVars
    \/ \E d \in {1, checkInterval * TicksPerSecond} : Advance(d)
             /\ UNCHANGED httpVars
    \/ Shutdown /\ UNCHANGED httpVars
    \/ CheckerReturn

SpecShutdown == InitShutdown /\ [][NextShutdown]_vars

\* The same with the goroutine of run scheduled again and again.
SpecShutdownFair == SpecShutdown /\ WF_vars(CheckerReturn)

\* Resolve with the request context: the click link is asked for by one
\* client, the missing code "b" by another, and the publish goroutine runs
\* before or after its handler returned and the context went on.
InitContext == InitClicks

NextContext ==
    \/ \E code \in Codes, req \in Requests, nonce \in {[i \in 1..8 |-> 7]} :
          ResolveCtx(code, req, nonce)
    \/ HandlerReturn
    \/ \E t \in goroutines : PublishCtx(t)
    \/ \E d \in {1} : Advance(d) /\ UNCHANGED httpVars

SpecContext == InitContext /\ [][NextContext]_vars

\* The rate-limit middleware under requests of one client that overlap,
\* while time passes.
InitRateLimit == InitLinks /\ bloomSupported

NextRateLimit ==
    \/ \E ip \in RateIPs, redisErr \in BOOLEAN : RateLimitIncr(ip, redisErr)
    \/ \E r \in rateReqs, redisErr \in BOOLEAN : RateLimitExpire(r, redisErr)
    \/ \E d \in {1, Window * TicksPerSecond} : Advance(d) /\ UNCHANGED httpVars

SpecRateLimit == InitRateLimit /\ [][NextRateLimit]_vars

\* Issue followed by validation, before the expiry: short click ids under
\* every code, tick and nonce; the long ones once each.
InitRoundTrip == InitToken

NextRoundTrip ==
    \/ \E code \in TokenCodes, clickID \in TokenClickIDs,
          t \in 0..MaxIssueTick, nonce \in Nonces :
          \E tv \in {u \in ValidateTicks(t) : u < ExpiredTick(t)} :
             RoundTrip(code, clickID, t, nonce, tv) /\ UNCHANGED <<linkVars, clickVars, httpVars>>
    \/ \E clickID \in LongClickIDs :
          RoundTrip(<<97>>, clickID, 0, [i \in 1..8 |-> 7], 0)
             /\ UNCHANGED <<linkVars, clickVars, httpVars>>

SpecRoundTrip == InitRoundTrip /\ [][NextRoundTrip]_vars

(***************************************************************************)
(* Claims.                                                                 *)
(***************************************************************************)

\* C1: a GetByCode(link.code) that comes next after a Create(link) that
\* succeeded (redis and the durable store answering) returns a record equal
\* to link and leaves the positive cache entry of link, whatever calls came
\* before the Create.
C1_GetAfterCreate ==
    [][(/\ lastOp.op = "Create"
        /\ lastOp.res.kind = "ok"
        /\ lastOp.healthy
        /\ lastOp'.op = "GetByCode"
        /\ lastOp'.code = lastOp.code
        /\ lastOp'.healthy
        /\ lastOp'.res.kind # "error")
           => /\ lastOp'.res = Ok(lastOp.arg)
              /\ cache'[lastOp.code] = Marshal(lastOp.arg)]_vars

\* C2: a step never changes the status of a stored click event unless that
\* status is PENDING.
C2_OnlyPendingChanges ==
    [][\A id \in DOMAIN events :
          events'[id].status # events[id].status
              => events[id].status = ClickStatusPending]_vars

\* The pipeline has nothing left to do for click id: no goroutine holds it
\* and no message of the stream carries it.
Settled(id) ==
    /\ \A t \in goroutines : t.clickID # id
    /\ \A d \in stream : UnmarshalEvent(d).id # id

\* C3: a click event whose confirmation was accepted and whose status update
\* ran against the store is SUCCESS once it is stored and the pipeline has
\* settled, sweeps included.
C3_ConfirmedEndsSuccess ==
    \A id \in DOMAIN events :
        (id \in hist.updated /\ Settled(id))
            => events[id].status = ClickStatusSuccess

\* An event row no confirmation was accepted for.
Unconfirmed(id) == \A c \in Codes : <<c, id>> \notin hist.accepted

\* C4: a stored click event no confirmation was accepted for, found PENDING
\* by a sweep that ran (the store answering) more than the TTL after the
\* event's timestamp, is FAILED from then on.
C4_UnconfirmedSweptFailed ==
    \A id \in DOMAIN events :
        (id \in hist.swept /\ Unconfirmed(id))
            => events[id].status = ClickStatusFailed

C4_Witness ==
    \E id \in DOMAIN events :
        /\ id \in hist.swept
        /\ Unconfirmed(id)
        /\ events[id].status = ClickStatusFailed

\* C5: an issued token presented unchanged for a code other than the one it
\* was issued for is rejected, codes with the separator included.
C5_OtherCodeRejected ==
    lastValidate.kind = "other" => lastValidate.err = "ErrInvalidToken"

C5_Witness ==
    /\ lastValidate.kind = "other"
    /\ lastValidate.origin.code = <<97>>
    /\ lastValidate.code = <<97, 124>>
    /\ lastValidate.err = "ErrInvalidToken"

\* C6: every (code, payload) pair a validation accepts is a pair that was
\* issued together.
C6_AcceptedWasIssued ==
    (lastValidate.kind # "none" /\ lastValidate.err = "nil")
        => \E tok \in issuedTokens :
              /\ tok.code = lastValidate.code
              /\ tok.payload = lastValidate.payload

C8_RoundTrip ==
    lastRoundTrip.done => (lastRoundTrip.err = "nil" /\ lastRoundTrip.same)

\* C9: an unchanged token presented for its code is rejected at every time
\* whose second is past issue second + 60, and accepted at every time from
\* issuance through that second.
C9_ExpiryInWholeSeconds ==
    lastValidate.kind = "same"
        => lastValidate.err =
              (IF Unix(lastValidate.at) > Unix(lastValidate.origin.at) + tokenTTL
               THEN "ErrInvalidToken" ELSE "nil")

C9_Witness ==
    /\ lastValidate.kind = "same"
    /\ lastValidate.at = ExpiredTick(lastValidate.origin.at)
    /\ lastValidate.err = "ErrInvalidToken"

\* C10: an issued token with one bit of one character of either segment
\* changed is rejected for the code it was issued for.
C10_FlippedRejected ==
    lastValidate.kind = "flipped" => lastValidate.err # "nil"

\* C11: whenever the filter is in use, every code with a row in the durable
\* store is a member of it, so the filter never answers "absent" for an
\* existing link.
C11_FilterHasEveryCode ==
    bloomSupported => \A c \in DOMAIN db : c \in bloom

\* C12: a GetByCode for which the filter answered "absent" returns NotFound
\* having sent no GET, SET or DEL for the cache key and no read to the
\* durable store.
C12_AbsentShortCircuits ==
    (lastOp.op = "GetByCode" /\ lastOp.absent)
        => /\ lastOp.res = ErrLinkNotFound
           /\ lastOp.reads = 0
           /\ lastOp.cacheReads = 0
           /\ lastOp.cacheWrites = 0

C12_Witness ==
    /\ lastOp.op = "GetByCode"
    /\ lastOp.absent
    /\ lastOp.healthy
    /\ lastOp.code \notin DOMAIN db
    /\ cache[lastOp.code] = CacheMiss

\* C13: after a GetByCode with redis reachable that the filter let through
\* and that returned NotFound, the sentinel is cached; and of two GetByCode
\* calls in a row for a code that has no row, both with redis reachable,
\* both let through by the filter and neither failing on the store, both
\* return NotFound and they read the durable store at most once between
\* them.
C13_NegativeCaching ==
    [][/\ (/\ lastOp.op = "GetByCode"
           /\ lastOp.healthy
           /\ ~lastOp.absent
           /\ lastOp.res = ErrLinkNotFound)
              => cache[lastOp.code] = cacheNullValue
       /\ (/\ lastOp.op = "GetByCode"
           /\ lastOp'.op = "GetByCode"
           /\ lastOp'.code = lastOp.code
           /\ lastOp.code \notin DOMAIN db'
           /\ lastOp.healthy /\ lastOp'.healthy
           /\ ~lastOp.absent /\ ~lastOp'.absent
           /\ lastOp.res.kind # "error" /\ lastOp'.res.kind # "error")
              => /\ lastOp.res = ErrLinkNotFound
                 /\ lastOp'.res = ErrLinkNotFound
                 /\ lastOp.reads + lastOp'.reads <= 1]_vars

C13_Witness ==
    /\ lastOp.op = "GetByCode"
    /\ lastOp.healthy
    /\ ~lastOp.absent
    /\ lastOp.res = ErrLinkNotFound
    /\ lastOp.reads = 0
    /\ lastOp.cacheReads = 1
    /\ lastOp.code \notin DOMAIN db

C15_NoStalePositive ==
    inflight = {}
        => \A c \in DOMAIN db :
              (cache[c] # CacheMiss /\ cache[c] # cacheNullValue)
                 => cache[c] = Marshal(db[c])

\* C16: once no call is under way, a GetByCode that read the store, found
\* nothing and was overtaken by a Create of its code has not left the
\* sentinel cached for the code.
C16_NoSentinelForExisting ==
    (/\ inflight = {}
     /\ lastOp.op = "GetByCode"
     /\ lastOp.reads = 1
     /\ lastOp.res = ErrLinkNotFound
     /\ lastOp.code \in DOMAIN db)
        => cache[lastOp.code] # cacheNullValue

\* C17: every message the consumer handled was answered with one of Ack and
\* Nak; Ack only when the message decoded and Create returned nil, the row
\* of its event then being in the store; Nak when decoding or Create failed.
C17_AckOnlyAfterPersist ==
    hist.consume.reply # "none"
        => /\ hist.consume.reply \in {"ack", "nak"}
           /\ hist.consume.reply = "ack"
                 <=> (hist.consume.decoded /\ hist.consume.stored)
           /\ hist.consume.reply = "ack" => hist.consume.id \in DOMAIN events

C17_Witness ==
    /\ hist.consume.reply = "nak"
    /\ ~hist.consume.decoded
    /\ ForeignMsgs \subseteq stream

\* C18: a message delivered again, whose event id has a row already, is
\* acknowledged when the store is reachable.
C18_DuplicateAcked ==
    (hist.consume.dup /\ ~hist.consume.dbErr) => hist.consume.reply = "ack"

InLog(id) ==
    \E d \in stream : UnmarshalEventOk(d) /\ UnmarshalEvent(d).id = id

Published(code, status, id, isTask) ==
    IF db[code].mode \in {"", "direct"}
    THEN status = ClickStatusSuccess /\ (isTask => id = <<>>)
    ELSE /\ status = ClickStatusPending
         /\ \E p \in pages : p.code = code /\ p.clickID = id

\* C20: every publish Resolve started, and every event in the log, is
\* SUCCESS for a direct link and PENDING with the page's click id for a click
\* link; click ids differ from page to page; each page's token validates
\* for its code to the page's click id; and each page has one publish: under
\* way, or in the log or the store, or failed.
C20_ResolvePublishes ==
    /\ \A t \in goroutines :
          t.task = "publish" => Published(t.code, t.status, t.clickID, TRUE)
    /\ \A d \in stream :
          UnmarshalEventOk(d)
             => Published(UnmarshalEvent(d).link_code, UnmarshalEvent(d).status,
                          UnmarshalEvent(d).id, FALSE)
    /\ \A p, q \in pages : p.clickID = q.clickID => p = q
    /\ \A p \in pages :
          /\ ValidateAndExtractClickID(p.code, p.token, p.at)
                = [err |-> "nil", clickID |-> p.clickID]
          /\ LET pending == \E t \in goroutines :
                               t.task = "publish" /\ t.clickID = p.clickID
                 done == InLog(p.clickID) \/ p.clickID \in DOMAIN events
                 lost == p.clickID \in hist.lost
             IN  /\ pending \/ done \/ lost
                 /\ ~(pending /\ done) /\ ~(pending /\ lost) /\ ~(done /\ lost)

C20_Witness ==
    \E p \in pages, d \in stream :
       /\ UnmarshalEventOk(d)
       /\ UnmarshalEvent(d).id = p.clickID
       /\ UnmarshalEvent(d).status = ClickStatusPending
       /\ p.clickID = UUIDString(1)

\* C21: the answer of Resolve is the one the looked-up link calls for (302 to
\* its url for a direct link, the page for a click or timer link), whether
\* publishes are waiting, have succeeded or have failed; the step that
\* answers only starts the publish goroutine, which has put nothing in the
\* log and recorded no failure by then; and the step in which a publish
\* succeeds or fails leaves the answer as it was.
C21_ResponseIgnoresPublish ==
    [][/\ (lastOp'.res.kind = "ok"
            /\ ~lastOp'.res.link.disabled /\ ~Expired(lastOp'.res.link))
              => hist'.resolve =
                    [code |-> lastOp'.code,
                     status |-> IF lastOp'.res.link.mode = "direct" THEN 302
                                ELSE IF lastOp'.res.link.mode = "batch" THEN 501
                                ELSE 200,
                     target |-> IF lastOp'.res.link.mode = "direct"
                                THEN lastOp'.res.link.url ELSE ""]
       /\ goroutines' \ goroutines # {}
              => /\ stream' = stream
                 /\ hist'.lost = hist.lost
                 /\ hist'.resolve.status \in {200, 302}
       /\ goroutines \ goroutines' # {}
              => /\ hist'.resolve = hist.resolve
                 /\ UNCHANGED <<pages, lastOp>>]_vars

C21_Witness ==
    /\ hist.resolve.status = 302
    /\ hist.resolve.target = "u1"
    /\ hist.lost # {}
    /\ goroutines = {}

\* C22: a status-update goroutine is started only in a step of the
\* confirmation endpoint that answers 302 to a token of a page of that code
\* presented before the clock has passed its expiry second; it is an update
\* to SUCCESS of the token's click id; the answering step leaves the stored
\* events as they are; and the step in which the update runs, failing or
\* not, leaves the answer as it was.
C22_UpdateAfterValidation ==
    [][/\ \A t \in goroutines' \ goroutines :
             t.task = "update"
                => /\ lastGo'.status = 302
                   /\ ~lastGo'.late
                   /\ t.status = ClickStatusSuccess
                   /\ \E p \in pages : p.code = t.code /\ p.clickID = t.clickID
                   /\ events' = events
       /\ \A t \in goroutines \ goroutines' :
             t.task = "update" => lastGo' = lastGo]_vars

C22_Witness ==
    /\ lastGo.status = 302
    /\ hist.accepted # {}
    /\ hist.updated = {}
    /\ \A t \in goroutines : t.task # "update"

C24_NotFoundVersusGone ==
    hist.resolve.status # 0
        => /\ hist.resolve.code = lastOp.code
           /\ hist.resolve.status = 404 <=> lastOp.res = ErrLinkNotFound
           /\ hist.resolve.status = 410
                 <=> /\ lastOp.res.kind = "ok"
                     /\ \/ lastOp.res.link.disabled
                        \/ /\ lastOp.res.link.expires_at # NoTime
                           /\ now > lastOp.res.link.expires_at[1]

C24_Witness ==
    /\ hist.resolve.status = 410
    /\ lastOp.res.kind = "ok"
    /\ ~lastOp.res.link.disabled
    /\ lastOp.res.link.expires_at = <<-1>>
    /\ lastOp.reads = 0

\* C25: every validation that fails, on a text that is no token, on a MAC
\* that does not match or on an expired token, returns the one error
\* ErrInvalidToken with an empty click id, and the confirmation endpoint
\* answers it with 401.
C25_OneInvalidToken ==
    (lastValidate.kind # "none" /\ lastValidate.err # "nil")
        => /\ lastValidate.err = "ErrInvalidToken"
           /\ lastValidate.clickID = <<>>
           /\ TokenStatus(lastValidate.err) = 401

C25_Witness ==
    /\ lastValidate.kind = "malformed"
    /\ lastValidate.payload = <<>>
    /\ lastValidate.err = "ErrInvalidToken"

\* C26: the step in which an UpdateLink call writes the durable store leaves
\* every field its input did not supply at the value the store held right
\* before that step, and sets every supplied field to the supplied value.
C26_OnlySuppliedFieldsChange ==
    [][\A p \in inflight \ inflight' :
          p.op = "UpdateLink"
             => /\ db'[p.code].url =
                      (IF p.arg.url = NotSupplied THEN db[p.code].url
                       ELSE p.arg.url[1])
                /\ db'[p.code].disabled =
                      (IF p.arg.disabled = NotSupplied THEN db[p.code].disabled
                       ELSE p.arg.disabled[1])
                /\ p.arg.mode = NotSupplied => db'[p.code].mode = db[p.code].mode
                /\ p.arg.timer_seconds = NotSupplied
                      => db'[p.code].timer_seconds = db[p.code].timer_seconds
                /\ p.arg.expires_at = NotSupplied
                      => db'[p.code].expires_at = db[p.code].expires_at]_vars

\* C27: an Update for a code that has no row, the store answering, returns
\* NotFound and leaves the durable store, the cache and the filter as they
\* were.
C27_UpdateOfMissingCode ==
    [][(/\ lastOp'.op = "Update"
        /\ lastOp'.code \notin DOMAIN db
        /\ lastOp'.res.kind # "error")
           => /\ lastOp'.res = ErrLinkNotFound
              /\ db' = db
              /\ cache' = cache
              /\ bloom' = bloom]_vars

C27_Witness ==
    /\ lastOp.op = "Update"
    /\ lastOp.res = ErrLinkNotFound
    /\ lastOp.healthy
    /\ lastOp.code \notin DOMAIN db
    /\ cache[lastOp.code] = cacheNullValue
    /\ lastOp.code \notin bloom

\* C28: a Create for a code that has a row returns a store error and leaves
\* the rows and the filter as they were; a Create that succeeds adds the
\* row it was given and nothing else, and the code to the filter when the
\* filter is in use and redis reachable; a Create whose store write fails
\* registers nothing.
C28_CreateUnique ==
    [][lastOp'.op = "Create"
          => IF lastOp'.code \in DOMAIN db \/ lastOp'.res.kind # "ok"
             THEN /\ lastOp'.res = ErrStore
                  /\ db' = db
                  /\ bloom' = bloom
             ELSE /\ DOMAIN db' = DOMAIN db \cup {lastOp'.code}
                  /\ db'[lastOp'.code] = lastOp'.arg
                  /\ \A c \in DOMAIN db : db'[c] = db[c]
                  /\ bloom' \subseteq bloom \cup {lastOp'.code}
                  /\ (bloomSupported /\ lastOp'.healthy)
                        => lastOp'.code \in bloom']_vars

C28_Witness ==
    /\ lastOp.op = "Create"
    /\ lastOp.res = ErrStore
    /\ lastOp.healthy
    /\ bloomSupported
    /\ lastOp.code \in DOMAIN db
    /\ lastOp.code \notin bloom

\* C29: a Resolve whose GetByCode failed on the store read has read the
\* store once, has sent no SET for the cache key and left the cache and the
\* store as they were, has started no publish, and is answered 500.
C29_StoreErrorSurfaces ==
    [][(lastOp'.op = "GetByCode" /\ lastOp'.res.kind = "error")
          => /\ lastOp'.res = ErrStore
             /\ lastOp'.reads = 1
             /\ lastOp'.cacheWrites = 0
             /\ cache' = cache
             /\ db' = db
             /\ goroutines' \subseteq goroutines
             /\ hist'.resolve = [code |-> lastOp'.code, status |-> 500,
                                 target |-> ""]]_vars

C29_Witness ==
    /\ hist.resolve.status = 500
    /\ lastOp.res = ErrStore
    /\ lastOp.code \in DOMAIN db
    /\ cache[lastOp.code] = CacheMiss

\* C30: a tick of the timeout checker is one step that either changes
\* nothing (its UPDATE failed or matched no row) or sets to FAILED exactly
\* the rows that were PENDING with a timestamp earlier than now - TTL, and
\* leaves every other row, and every other field, as it was.
C30_SweepExactlyOverdue ==
    [][checker' # checker
          => \/ events' = events
             \/ /\ DOMAIN events' = DOMAIN events
                /\ \A id \in DOMAIN events :
                      events'[id] =
                         IF /\ events[id].status = ClickStatusPending
                            /\ events[id].timestamp < now - clickTTL * TicksPerSecond
                         THEN [link_code |-> events[id].link_code,
                               status |-> ClickStatusFailed,
                               timestamp |-> events[id].timestamp]
                         ELSE events[id]]_vars

C30_Witness ==
    \E i, j \in DOMAIN events :
       /\ i \in hist.swept
       /\ events[i].status = ClickStatusFailed
       /\ events[i].timestamp = -1
       /\ events[j].status = ClickStatusPending
       /\ events[j].timestamp = 0
       /\ now = clickTTL * TicksPerSecond
       /\ checker.nextTick > now

\* C33: the members of the existence filter change only in a Create that
\* succeeded, and then by the created code being added; GetByCode, List,
\* Update and the expiry of a cache key leave the filter as it was, and no
\* step takes a code out of it.
C33_FilterChangedOnlyByCreate ==
    [][/\ bloom \subseteq bloom'
       /\ bloom' # bloom
             => /\ lastOp'.op = "Create"
                /\ lastOp'.res.kind = "ok"
                /\ bloom' = bloom \cup {lastOp'.code}
       /\ lastOp'.op \in {"GetByCode", "List", "Update"} => bloom' = bloom]_vars

C33_Witness ==
    /\ lastOp.op = "List"
    /\ lastOp.res.kind = "ok"
    /\ Len(lastOp.res.links) = 1
    /\ bloom = {<<97>>, <<98>>}
    /\ DOMAIN db = {<<97>>, <<98>>}

\* C34: List makes one query of the durable store and sends no command for
\* the cache or the filter; it answers with rows of the table as they are,
\* newest first, leaving out the offset newest ones (none for a negative
\* offset) and giving at most limit rows (20 for a limit of 0 or less).
C34_ListNewestFirstFromStore ==
    [][lastOp'.op = "List"
          => /\ db' = db /\ cache' = cache /\ bloom' = bloom
             /\ lastOp'.reads = 1
             /\ lastOp'.cacheReads = 0 /\ lastOp'.cacheWrites = 0
             /\ lastOp'.res.kind = "ok"
                   => LET links == lastOp'.res.links
                          limit == IF lastOp'.arg.limit <= 0
                                   THEN 20 ELSE lastOp'.arg.limit
                          offset == IF lastOp'.arg.offset < 0
                                    THEN 0 ELSE lastOp'.arg.offset
                          rest == Cardinality(DOMAIN db) - offset
                          Newer(l) == {c \in DOMAIN db :
                                         db[c].created_at > l.created_at}
                          NotOlder(l) == {c \in DOMAIN db :
                                            db[c].created_at >= l.created_at}
                      IN  /\ Len(links) = IF rest <= 0 THEN 0
                                          ELSE IF rest < limit THEN rest ELSE limit
                          /\ \A i \in 1..Len(links) :
                                /\ links[i].code \in DOMAIN db
                                /\ links[i] = db[links[i].code]
                                /\ Cardinality(Newer(links[i])) <= offset + i - 1
                                /\ Cardinality(NotOlder(links[i])) >= offset + i
                          /\ \A i, j \in 1..Len(links) :
                                i < j => /\ links[i].created_at >= links[j].created_at
                                         /\ links[i].code # links[j].code]_vars

C34_Witness ==
    /\ lastOp.op = "List"
    /\ lastOp.res.kind = "ok"
    /\ lastOp.arg.limit = 0
    /\ lastOp.arg.offset = -1
    /\ Cardinality(DOMAIN db) = defaultLimit + 2
    /\ Len(lastOp.res.links) = defaultLimit
    /\ lastOp.res.links[1].code = <<17>>

\* C31: once Server.Shutdown has been called, the consumer takes no further
\* message: it stores no event and answers none.
C31_ConsumerStopsAfterShutdown ==
    [][checker.stopped
          => /\ hist'.consume = hist.consume
             /\ DOMAIN events' = DOMAIN events
             /\ stream' \subseteq stream => stream' = stream]_vars

\* C32: once Stop has closed stopChan the loop of run returns, whatever the
\* consumer does meanwhile, and after it has returned no tick is handled.
C32_SweeperStops ==
    /\ [][~checker.running => checker' = checker]_vars
    /\ (checker.stopped ~> ~checker.running)

C32_Witness ==
    /\ checker.stopped
    /\ ~checker.running
    /\ now >= checker.nextTick
    /\ hist.swept # {}
    /\ stream # {}

\* C35: a GetLink or an UpdateLink whose GetByCode reported ErrLinkNotFound
\* answers no link and an error that errors.Is still finds to be
\* ErrLinkNotFound, and such an UpdateLink makes no call of Update: the
\* store is as it was and GetByCode is the last call the repository saw.
C35_NotFoundPassesThroughService ==
    [][(/\ hist'.service.op \in {"GetLink", "UpdateLink"}
        /\ lastOp'.op = "GetByCode"
        /\ lastOp'.res = ErrLinkNotFound)
          => /\ hist'.service.link = NoLink
             /\ ErrorsIs(hist'.service.err, ErrLinkNotFound)
             /\ hist'.service.err # ErrLinkNotFound
             /\ db' = db
             /\ inflight' = inflight]_vars

C35_Witness ==
    /\ hist.service.op = "UpdateLink"
    /\ lastOp.op = "GetByCode"
    /\ lastOp.res = ErrLinkNotFound
    /\ lastOp.code = <<98>>
    /\ <<97>> \in DOMAIN db
    /\ db[<<97>>].url = "u2"

\* C36: a step of the consumer, and so the delivery of a PENDING message
\* whose event has a row with status SUCCESS or FAILED, leaves that row as
\* it is: its status, its link code and its timestamp.
C36_RedeliveryKeepsFinalRow ==
    [][\A id \in DOMAIN events :
          (/\ events[id].status \in {ClickStatusSuccess, ClickStatusFailed}
           /\ goroutines' = goroutines
           /\ checker' = checker)
             => /\ id \in DOMAIN events'
                /\ events'[id] = events[id]]_vars

C36_Witness ==
    /\ hist.consume.dup
    /\ hist.consume.was = ClickStatusSuccess
    /\ hist.consume.reply = "nak"
    /\ ~hist.consume.dbErr
    /\ events[hist.consume.id].status = ClickStatusSuccess

\* C37: a confirmation whose token validates, for a code whose link is at
\* that time missing from the store, disabled or past its expiry, answers
\* 404 or 410, starts no status update and is not taken as a redirect.
C37_NoConfirmOfUnservableLink ==
    [][LET code == lastOp'.code
           go == \/ lastGo' # lastGo
                 \/ hist'.accepted # hist.accepted
                 \/ \E t \in goroutines' \ goroutines : t.task = "update"
           unservable == \/ code \notin DOMAIN db
                         \/ db[code].disabled
                         \/ Expired(db[code])
       IN  (go /\ lastGo'.status # 401 /\ lastOp'.op = "GetByCode" /\ unservable)
              => /\ lastGo'.status \in {404, 410}
                 /\ hist'.accepted = hist.accepted
                 /\ \A t \in goroutines' \ goroutines : t.task # "update"]_vars

\* C38: every call of Publish made for a request is made with the ip and the
\* user agent of that request.
C38_EventCarriesOwnRequest ==
    \A p \in published : \A s \in started :
       s.id = p.id => p.ip = s.own.ip /\ p.user_agent = s.own.user_agent

\* C40: while no redis command has failed, at most MaxRequests requests are
\* passed on or about to be under one key, that is from the INCR that
\* created it to its expiry; a request is answered 429 exactly when its INCR returned more
\* than MaxRequests; and the first request after the expiry counts from 1
\* again and is passed on.
C40_AtMostMaxRequestsPerWindow ==
    [][rateLog'.healthy
          => /\ rateLog'.passed + Cardinality(rateReqs') <= MaxRequests
             /\ rateLog'.status # 0 /\ rateLog' # rateLog
                   => /\ rateLog'.status = IF rateLog'.result > MaxRequests
                                           THEN 429 ELSE 200
                      /\ rateLog'.status = 200 => rateLog'.passed = rateLog.passed + 1
                      /\ rateLog'.status = 429
                            => rateLog'.passed + Cardinality(rateReqs') = MaxRequests
             /\ \A ip \in RateIPs :
                   (rateKeys'[ip].count # rateKeys[ip].count /\ ~Live(rateKeys[ip]))
                      => /\ rateKeys'[ip].count = 1
                         /\ [ip |-> ip, result |-> 1] \in rateReqs'
             /\ \A r \in rateReqs \ rateReqs' :
                   /\ rateLog'.status = 200
                   /\ Live(rateKeys'[r.ip])
                   /\ rateKeys'[r.ip].ttl = <<now + Window * TicksPerSecond>>]_vars

C40_Witness ==
    /\ rateLog.healthy
    /\ rateLog.rejected
    /\ rateLog.keys = 2
    /\ rateLog.status = 200
    /\ rateLog.passed = 1
    /\ now >= Window * TicksPerSecond

\* C39: for every payload whose MAC verifies, ValidateAndExtractClickID
\* returns: a click id with a nil error, or ErrInvalidToken.
C39_ExtractAlwaysReturns ==
    lastValidate.kind = "signed" => lastValidate.err \in {"nil", "ErrInvalidToken"}
====
